---- MODULE Spec2Model ----
(***************************************************************************)
(* ep_media_upload: the server side of the plugin (index.js) and the       *)
(* upload flow of its browser side (static/js/clientHooks.js).             *)
(*                                                                         *)
(* Two express routes, s3_presign (upload) and download, each a chain of   *)
(* checks in front of a call of the AWS presigner; a per-IP sliding-window *)
(* rate limiter with a periodic cleanup timer; and the pure validators the *)
(* routes use.  An earlier revision of the upload route, registered by the *)
(* expressConfigure hook, is modelled as well.                             *)
(*                                                                         *)
(* JavaScript strings are modelled as sequences of one-character strings   *)
(* (UTF-16 code units); NUL stands for the code unit 0.                    *)
(***************************************************************************)
EXTENDS Integers, Sequences, FiniteSets, TLC

(***************************************************************************)
(* Strings                                                                 *)
(***************************************************************************)

\* The code units of a string literal.
Chars(s) == [i \in 1..Len(s) |-> SubSeq(s, i, i)]

\* The code unit 0, which a TLA+ string literal cannot hold.
NUL == "NUL"

\* n copies of the code unit c.
Rep(c, n) == [i \in 1..n |-> c]

\* The absent values of JavaScript (undefined / null) and a value that is
\* not a string (what the query parser yields for ?file=a&file=b).  Each is
\* a one-element sequence whose element is no code unit, so none is equal to
\* a string.
Undefined == <<"undefined">>
Null == <<"null">>
NotAString == <<"array">>

IsString(v) == v \notin {Undefined, Null, NotAString}

\* String.prototype.includes for a one-unit needle.
IncludesChar(s, c) == \E i \in 1..Len(s) : s[i] = c

\* String.prototype.includes for a needle of several units.
Includes(s, needle) ==
  \E i \in 1..(Len(s) - Len(needle) + 1) : SubSeq(s, i, i + Len(needle) - 1) = needle

Digits == {"0", "1", "2", "3", "4", "5", "6", "7", "8", "9"}
LowerLetters == Chars("abcdefghijklmnopqrstuvwxyz")
UpperLetters == Chars("ABCDEFGHIJKLMNOPQRSTUVWXYZ")
LowerSet == {LowerLetters[i] : i \in 1..Len(LowerLetters)}
UpperSet == {UpperLetters[i] : i \in 1..Len(UpperLetters)}

\* The code units 0x00-0x1F that occur in the inputs of this model:
\* NUL, TAB, LF, CR.
ControlChars == {NUL, "\t", "\n", "\r"}

\* String.prototype.toLowerCase, one code unit.
ToLowerChar(c) ==
  IF c \in UpperSet
    THEN LowerLetters[CHOOSE i \in 1..Len(UpperLetters) : UpperLetters[i] = c]
    ELSE c

toLowerCase(s) == [i \in 1..Len(s) |-> ToLowerChar(s[i])]

(***************************************************************************)
(* Input validation helpers                                                *)
(***************************************************************************)

\* /[\x00-\x1f]/.test(padId)
HasControlChar(s) == \E i \in 1..Len(s) : s[i] \in ControlChars

\* The blocklist check of the pad id, with the backslash test left out.
isValidPadId_NoBackslash(padId) ==
  /\ IsString(padId)
  /\ Len(padId) # 0
  /\ ~(Len(padId) = 0 \/ Len(padId) > 500)
  /\ ~Includes(padId, <<".", ".">>)
  /\ ~IncludesChar(padId, NUL)
  /\ ~IncludesChar(padId, "/")
  /\ ~HasControlChar(padId)

\* isValidPadId: !padId is true of undefined, null and the empty string.
isValidPadId(padId) ==
  /\ IsString(padId)
  /\ Len(padId) # 0
  /\ ~(Len(padId) = 0 \/ Len(padId) > 500)
  /\ ~Includes(padId, <<".", ".">>)
  /\ ~IncludesChar(padId, NUL)
  /\ ~(IncludesChar(padId, "/") \/ IncludesChar(padId, "\\"))
  /\ ~HasControlChar(padId)

\* [a-f0-9] under the i flag.
IsHexChar(c) == c \in Digits \cup {"a", "b", "c", "d", "e", "f"} \cup {"A", "B", "C", "D", "E", "F"}

\* [a-z0-9] under the i flag.
IsAlnumChar(c) == c \in Digits \cup LowerSet \cup UpperSet

\* The positions of the hyphens of the 8-4-4-4-12 shape.
UuidHyphens == {9, 14, 19, 24}

\* The length of the 8-4-4-4-12 shape.
UuidLen == 8 + 1 + 4 + 1 + 4 + 1 + 4 + 1 + 12

\* /^[a-f0-9]{8}-[a-f0-9]{4}-[a-f0-9]{4}-[a-f0-9]{4}-[a-f0-9]{12}\.[a-z0-9]+$/i
MatchesFileIdRegex(s) ==
  /\ Len(s) >= UuidLen + 2
  /\ \A i \in 1..UuidLen : IF i \in UuidHyphens THEN s[i] = "-" ELSE IsHexChar(s[i])
  /\ s[UuidLen + 1] = "."
  /\ \A i \in (UuidLen + 2)..Len(s) : IsAlnumChar(s[i])

\* The file id check with the shape test left out (a blocklist only).
isValidFileId_NoRegex(fileId) ==
  /\ IsString(fileId)
  /\ Len(fileId) # 0
  /\ ~(Len(fileId) > 100)
  /\ ~(Includes(fileId, <<".", ".">>) \/ IncludesChar(fileId, "/") \/ IncludesChar(fileId, "\\"))
  /\ ~IncludesChar(fileId, NUL)

\* isValidFileId
isValidFileId(fileId) ==
  /\ IsString(fileId)
  /\ Len(fileId) # 0
  /\ ~(Len(fileId) > 100)
  /\ ~(Includes(fileId, <<".", ".">>) \/ IncludesChar(fileId, "/") \/ IncludesChar(fileId, "\\"))
  /\ ~IncludesChar(fileId, NUL)
  /\ MatchesFileIdRegex(fileId)

(***************************************************************************)
(* path.extname and path.basename (POSIX), as the handlers call them       *)
(***************************************************************************)

\* The end of the last path segment: the last index that holds no slash
\* (trailing slashes are skipped), 0 when there is none.
SegmentEnd(p) ==
  IF \A i \in 1..Len(p) : p[i] = "/" THEN 0
  ELSE CHOOSE i \in 1..Len(p) : p[i] # "/" /\ \A j \in (i + 1)..Len(p) : p[j] = "/"

\* The index before the last path segment: that of the last slash in front
\* of SegmentEnd, 0 when there is none.
SegmentStart(p) ==
  LET e == SegmentEnd(p)
  IN IF \A i \in 1..e : p[i] # "/" THEN 0
     ELSE CHOOSE i \in 1..e : p[i] = "/" /\ \A j \in (i + 1)..e : p[j] # "/"

\* path.extname: from the last dot of the last path segment to its end;
\* empty when the segment has no dot, starts with its last dot, or is "..".
extname(p) ==
  LET e == SegmentEnd(p)
      s0 == SegmentStart(p)
      dots == {i \in (s0 + 1)..e : p[i] = "."}
      d == CHOOSE i \in dots : \A j \in dots : j <= i
  IN IF dots = {} THEN <<>>
     ELSE IF d = s0 + 1 THEN <<>>
     ELSE IF p[s0 + 1] = "." /\ d = e /\ d = s0 + 2 THEN <<>>
     ELSE SubSeq(p, d, e)

\* path.basename: the last path segment, trailing slashes dropped.
basename(p) == SubSeq(p, SegmentStart(p) + 1, SegmentEnd(p))

\* getValidExtension with the lowercasing left out.
getValidExtension_NoLower(filename) ==
  IF ~IsString(filename) \/ filename = <<>> THEN Null
  ELSE LET ext == extname(filename)
       IN IF ext = <<>> \/ ext = <<".">> THEN Null
          ELSE Tail(ext)

\* getValidExtension: the extension without its dot, lowercased, or null.
getValidExtension(filename) ==
  IF ~IsString(filename) \/ filename = <<>> THEN Null
  ELSE LET ext == extname(filename)
       IN IF ext = <<>> \/ ext = <<".">> THEN Null
          ELSE toLowerCase(Tail(ext))

(***************************************************************************)
(* MIME type against extension                                             *)
(***************************************************************************)

\* EXTENSION_MIME_MAP
EXTENSION_MIME_MAP ==
  [pdf |-> {"application/pdf"},
   doc |-> {"application/msword"},
   docx |-> {"application/vnd.openxmlformats-officedocument.wordprocessingml.document"},
   xls |-> {"application/vnd.ms-excel"},
   xlsx |-> {"application/vnd.openxmlformats-officedocument.spreadsheetml.sheet"},
   ppt |-> {"application/vnd.ms-powerpoint"},
   pptx |-> {"application/vnd.openxmlformats-officedocument.presentationml.presentation"},
   txt |-> {"text/plain"},
   rtf |-> {"application/rtf", "text/rtf"},
   csv |-> {"text/csv", "text/plain", "application/csv"},
   jpg |-> {"image/jpeg"},
   jpeg |-> {"image/jpeg"},
   png |-> {"image/png"},
   gif |-> {"image/gif"},
   webp |-> {"image/webp"},
   bmp |-> {"image/bmp"},
   svg |-> {"image/svg+xml"},
   mp3 |-> {"audio/mpeg", "audio/mp3"},
   wav |-> {"audio/wav", "audio/wave", "audio/x-wav", "audio/vnd.wave"},
   ogg |-> {"audio/ogg"},
   m4a |-> {"audio/mp4", "audio/x-m4a"},
   flac |-> {"audio/flac"},
   mp4 |-> {"video/mp4"},
   mov |-> {"video/quicktime"},
   avi |-> {"video/x-msvideo"},
   mkv |-> {"video/x-matroska"},
   webm |-> {"video/webm"},
   zip |-> {"application/zip", "application/x-zip-compressed"},
   rar |-> {"application/vnd.rar", "application/x-rar-compressed"},
   7z |-> {"application/x-7z-compressed"},
   tar |-> {"application/x-tar"},
   gz |-> {"application/gzip", "application/x-gzip"}]

\* The lowercase property names every plain object inherits from
\* Object.prototype: a lookup of one of them in EXTENSION_MIME_MAP yields a
\* value that is not an array.
InheritedProperties == {Chars("constructor"), Chars("__proto__")}

\* String.prototype.split(';')[0]
BeforeSemicolon(s) ==
  IF IncludesChar(s, ";")
    THEN SubSeq(s, 1, (CHOOSE i \in 1..Len(s) : s[i] = ";" /\ \A j \in 1..(i - 1) : s[j] # ";") - 1)
    ELSE s

WhiteSpace == {" ", "\t", "\n", "\r"}

\* String.prototype.trim
trim(s) ==
  IF \A i \in 1..Len(s) : s[i] \in WhiteSpace THEN <<>>
  ELSE LET a == CHOOSE i \in 1..Len(s) : s[i] \notin WhiteSpace /\ \A j \in 1..(i - 1) : s[j] \in WhiteSpace
           b == CHOOSE i \in 1..Len(s) : s[i] \notin WhiteSpace /\ \A j \in (i + 1)..Len(s) : s[j] \in WhiteSpace
       IN SubSeq(s, a, b)

\* Whether the call isValidMimeForExtension(extension, mimeType) throws a
\* TypeError: the looked-up value is inherited from Object.prototype and has
\* no some(), or the declared type is not a string and has no toLowerCase().
isValidMimeForExtension_throws(extension, mimeType) ==
  /\ ~(extension \in {Undefined, Null} \/ extension = <<>>)
  /\ ~(mimeType \in {Undefined, Null} \/ mimeType = <<>>)
  /\ LET key == toLowerCase(extension)
     IN \/ key \in InheritedProperties
        \/ /\ \E k \in DOMAIN EXTENSION_MIME_MAP : Chars(k) = key
           /\ ~IsString(mimeType)

\* isValidMimeForExtension with every extension treated as unmapped.
isValidMimeForExtension_Permissive(extension, mimeType) ==
  /\ ~(extension \in {Undefined, Null} \/ extension = <<>>)
  /\ ~(mimeType \in {Undefined, Null} \/ mimeType = <<>>)

\* isValidMimeForExtension, for a call that does not throw.
isValidMimeForExtension(extension, mimeType) ==
  IF extension \in {Undefined, Null} \/ extension = <<>> THEN FALSE
  ELSE IF mimeType \in {Undefined, Null} \/ mimeType = <<>> THEN FALSE
  ELSE LET key == toLowerCase(extension)
       IN IF ~\E k \in DOMAIN EXTENSION_MIME_MAP : Chars(k) = key THEN TRUE
          ELSE LET allowedMimes == EXTENSION_MIME_MAP[CHOOSE k \in DOMAIN EXTENSION_MIME_MAP : Chars(k) = key]
                   normalizedMime == trim(BeforeSemicolon(toLowerCase(mimeType)))
               IN \E allowed \in allowedMimes : Chars(allowed) = normalizedMime

(***************************************************************************)
(* State                                                                   *)
(***************************************************************************)

VARIABLES
  securityManager,    \* TRUE when require('.../SecurityManager') succeeded
  awsSdk,             \* TRUE when the AWS SDK modules were loaded
  settings,           \* settings.ep_media_upload
  now,                \* Date.now(), in milliseconds since process start
  nextCleanup,        \* the time at which the cleanup timer is next due
  presignRateStore,   \* _presignRateStore: Map from ip to its timestamps
  reqs,               \* the requests being handled, by request slot
  lastCheck,          \* the last direct call of _rateLimitCheck, its pre-state and
                      \* what it would have returned had no cleanup ever run
  vcase,              \* the last application of a validator: input and verdict
  client,             \* the browser: modal, pending timers, document links, uploads
  unswept             \* what _presignRateStore would hold had no cleanup ever run

\* The browser before any upload: the modal hidden, no timer pending, no
\* link inserted, the presign request of no upload (0) on its way.
NoClient ==
  [modal |-> [visible |-> FALSE, shown |-> "none"], timers |-> 0, links |-> <<>>,
   serving |-> 0, server |-> "index.js", uploads |-> <<>>]

vars == <<securityManager, awsSdk, settings, now, nextCleanup, presignRateStore,
          reqs, lastCheck, vcase, client, unswept>>

(***************************************************************************)
(* Rate limiter                                                            *)
(***************************************************************************)

\* PRESIGN_RATE_WINDOW_MS
PRESIGN_RATE_WINDOW_MS == 60 * 1000

\* PRESIGN_RATE_MAX
PRESIGN_RATE_MAX == 30

\* RATE_CLEANUP_INTERVAL_MS
RATE_CLEANUP_INTERVAL_MS == 5 * 60 * 1000

\* _presignRateStore.get(ip) || []
StampsOf(store, ip) == IF ip \in DOMAIN store THEN store[ip] ELSE <<>>

\* The filter with an inclusive window edge (t >= now - window).
ValidStamps_Inclusive(stamps, t0) ==
  SelectSeq(stamps, LAMBDA t : t >= t0 - PRESIGN_RATE_WINDOW_MS)

\* stamps.filter((t) => t > now - PRESIGN_RATE_WINDOW_MS)
ValidStamps(stamps, t0) ==
  SelectSeq(stamps, LAMBDA t : t > t0 - PRESIGN_RATE_WINDOW_MS)

\* The limit test off by one (> instead of >=).
RateLimitAllows_OffByOne(store, ip, t0) ==
  ~(Len(ValidStamps(StampsOf(store, ip), t0)) > PRESIGN_RATE_MAX)

\* The return value of _rateLimitCheck(ip) at time t0.
RateLimitAllows(store, ip, t0) ==
  ~(Len(ValidStamps(StampsOf(store, ip), t0)) >= PRESIGN_RATE_MAX)

\* Map.set
MapSet(store, ip, stamps) ==
  [k \in DOMAIN store \cup {ip} |-> IF k = ip THEN stamps ELSE store[k]]

\* _rateLimitCheck writing the filtered list back on a refusal as well.
RateLimitStore_WriteOnDeny(store, ip, t0) ==
  IF RateLimitAllows(store, ip, t0)
    THEN MapSet(store, ip, Append(ValidStamps(StampsOf(store, ip), t0), t0))
    ELSE MapSet(store, ip, Append(ValidStamps(StampsOf(store, ip), t0), t0))

\* The store after _rateLimitCheck(ip) at time t0: nothing is written on a
\* refusal; otherwise the filtered list with t0 appended.
RateLimitStore(store, ip, t0) ==
  IF RateLimitAllows(store, ip, t0)
    THEN MapSet(store, ip, Append(ValidStamps(StampsOf(store, ip), t0), t0))
    ELSE store

\* The cleanup callback clearing the map.
CleanedStore_Clears(store, t0) == <<>>

\* The cleanup callback setting every filtered list and deleting no key.
CleanedStore_KeepsKeys(store, t0) ==
  [ip \in DOMAIN store |-> ValidStamps(store[ip], t0)]

\* The store after one run of the cleanup timer's callback at time t0.
CleanedStore(store, t0) ==
  LET kept == {ip \in DOMAIN store : Len(ValidStamps(store[ip], t0)) # 0}
  IN [ip \in kept |-> ValidStamps(store[ip], t0)]

(***************************************************************************)
(* Settings, requests and responses                                        *)
(***************************************************************************)

\* settings.ep_media_upload.storage as a complete s3_presigned section.
\* expires and downloadExpires are 0 when the section leaves them out.
Storage(bucket, keyPrefix, expires, downloadExpires) ==
  [type |-> "s3_presigned", bucket |-> bucket, region |-> "eu-west-1",
   keyPrefix |-> keyPrefix, expires |-> expires, downloadExpires |-> downloadExpires]

\* No storage section at all.
NoStorage ==
  [type |-> "none", bucket |-> "", region |-> "", keyPrefix |-> Undefined,
   expires |-> 0, downloadExpires |-> 0]

\* The configurations of the model: fileTypes and inlineExtensions are sets
\* of strings, or {Undefined} when the setting is absent.
SettingsPlain ==
  [storage |-> Storage("bucket", Chars("uploads/"), 0, 0),
   fileTypes |-> {Undefined}, inlineExtensions |-> {Undefined}, maxFileSize |-> 0]

SettingsStrict ==
  [storage |-> Storage("bucket", Undefined, 900, 120),
   fileTypes |-> {Chars("pdf"), Chars("mp3")},
   inlineExtensions |-> {Chars("MP3"), Chars("png")}, maxFileSize |-> 50]

SettingsNoStorage ==
  [storage |-> NoStorage, fileTypes |-> {Undefined}, inlineExtensions |-> {Undefined},
   maxFileSize |-> 0]

SettingsNoBucket ==
  [storage |-> Storage("", Chars("uploads/"), 0, 0),
   fileTypes |-> {Undefined}, inlineExtensions |-> {Undefined}, maxFileSize |-> 0]

AllSettings == {SettingsPlain, SettingsStrict, SettingsNoStorage, SettingsNoBucket}

\* The values crypto.randomUUID() returns in this model.
UUIDs ==
  {Chars("a1b2c3d4-e5f6-7890-abcd-ef1234567890"),
   Chars("00000000-0000-4000-8000-00000000000f")}

\* No command: getSignedUrl has not been called for the request.
NoCommand ==
  [op |-> "none", Bucket |-> "", Key |-> <<>>, ContentType |-> Undefined,
   Disposition |-> "", Filename |-> <<>>, ResponseContentType |-> "", expiresIn |-> 0]

\* No download reference in the response.
NoUrl == [padId |-> <<>>, file |-> <<>>]

\* A request slot that handles nothing.
IdleReq ==
  [pc |-> "idle", route |-> "none", padId |-> Undefined, file |-> Undefined,
   name |-> Undefined, type |-> Undefined, cookie |-> FALSE, clientIp |-> "",
   oraclePad |-> Undefined, access |-> "none", authorId |-> "unknown",
   limiter |-> "none", limitedAt |-> -1, command |-> NoCommand, fromKey |-> <<>>,
   status |-> 0, error |-> "", signedUrl |-> NoCommand, downloadUrl |-> NoUrl,
   publicUrl |-> <<>>, logs |-> <<>>]

\* A fresh request on a route.
NewReq(route, padId, file, name, type, cookie, ip) ==
  [IdleReq EXCEPT !.route = route, !.padId = padId, !.file = file, !.name = name,
                  !.type = type, !.cookie = cookie, !.clientIp = ip]

\* One line of the audit log.
LogLine(level, event, ip, pad, author) ==
  [level |-> level, event |-> event, ip |-> ip, pad |-> pad, author |-> author]

\* res.status(status).json({error}) and return.
Fail(q, status, error) == [q EXCEPT !.pc = "done", !.status = status, !.error = error]

\* The same, after one log line.
FailLogged(q, status, error, line) ==
  [q EXCEPT !.pc = "done", !.status = status, !.error = error, !.logs = Append(@, line)]

\* The replacement with the class reduced to the control characters.
Sanitize_ControlOnly(s) ==
  [i \in 1..Len(s) |-> IF s[i] \in {NUL, "\n", "\r", "\t"} THEN "_" ELSE s[i]]

\* filename.replace(/[^\w\-_.]/g, '_')
Sanitize(s) ==
  [i \in 1..Len(s) |-> IF IsAlnumChar(s[i]) \/ s[i] \in {"_", "-", "."} THEN s[i] ELSE "_"]

\* The two hexadecimal digits of the code units that encodeURIComponent
\* escapes, for the code units of this model.
PercentCode(c) ==
  CASE c = "$" -> <<"%", "2", "4">>
    [] c = ":" -> <<"%", "3", "A">>
    [] c = " " -> <<"%", "2", "0">>
    [] c = "%" -> <<"%", "2", "5">>
    [] c = "/" -> <<"%", "2", "F">>
    [] c = "\\" -> <<"%", "5", "C">>
    [] c = "@" -> <<"%", "4", "0">>
    [] c = "\"" -> <<"%", "2", "2">>
    [] c = "\n" -> <<"%", "0", "A">>
    [] c = "\t" -> <<"%", "0", "9">>
    [] c = "\r" -> <<"%", "0", "D">>
    [] c = NUL -> <<"%", "0", "0">>
    [] OTHER -> <<"%", "3", "F">>

\* The code units encodeURIComponent leaves as they are.
Unreserved == Digits \cup LowerSet \cup UpperSet \cup {"-", "_", ".", "!", "~", "*", "'", "(", ")"}

RECURSIVE encodeURIComponent(_)
encodeURIComponent(s) ==
  IF s = <<>> THEN <<>>
  ELSE (IF Head(s) \in Unreserved THEN <<Head(s)>> ELSE PercentCode(Head(s)))
       \o encodeURIComponent(Tail(s))

\* The code unit a percent escape stands for.
PercentChar(e) ==
  CHOOSE c \in {"$", ":", " ", "%", "/", "\\", "@", "\"", "\n", "\t", "\r", NUL, "?"} :
    IF c = "?" THEN \A d \in {"$", ":", " ", "%", "/", "\\", "@", "\"", "\n", "\t", "\r", NUL} : PercentCode(d) # e
    ELSE PercentCode(c) = e

\* decodeURIComponent, as express applies it to a path parameter and the
\* query parser to a query value.
RECURSIVE decodeURIComponent(_)
decodeURIComponent(s) ==
  IF s = <<>> THEN <<>>
  ELSE IF Head(s) = "%" /\ Len(s) >= 3
    THEN <<PercentChar(SubSeq(s, 1, 3))>> \o decodeURIComponent(SubSeq(s, 4, Len(s)))
    ELSE <<Head(s)>> \o decodeURIComponent(Tail(s))

\* keyPrefix || ''
PrefixOf(storage) == IF storage.keyPrefix = Undefined THEN <<>> ELSE storage.keyPrefix

\* EXTENSION_CONTENT_TYPE of the download route; "" when the extension has
\* no entry.
EXTENSION_CONTENT_TYPE(ext) ==
  CASE ext = Chars("mp3") -> "audio/mpeg"
    [] ext = Chars("wav") -> "audio/wav"
    [] ext = Chars("mp4") -> "video/mp4"
    [] ext = Chars("mov") -> "video/quicktime"
    [] ext = Chars("webm") -> "video/webm"
    [] ext = Chars("ogg") -> "audio/ogg"
    [] ext = Chars("m4a") -> "audio/mp4"
    [] ext = Chars("pdf") -> "application/pdf"
    [] OTHER -> ""

(***************************************************************************)
(* The upload route: GET /p/:padId/pluginfw/ep_media_upload/s3_presign     *)
(***************************************************************************)

\* !storageCfg || storageCfg.type !== 's3_presigned'
StorageNotConfigured(cfg) == cfg.storage.type # "s3_presigned"

\* The bucket and region test that finds nothing missing.
BucketOrRegionMissing_Never(cfg) == FALSE

\* !bucket || !region
BucketOrRegionMissing(cfg) == cfg.storage.bucket = "" \/ cfg.storage.region = ""

\* The presence test that takes every value as present.
Falsy_Never(v) == FALSE

\* !name || !type: undefined, null and the empty string are falsy.
Falsy(v) == v \in {Undefined, Null} \/ v = <<>>

\* The extension allow-list with the membership test left out.
FileTypeRefused_Never(cfg, extName) == FALSE

\* fileTypes is an array that does not include extName.
FileTypeRefused(cfg, extName) ==
  /\ cfg.fileTypes # {Undefined}
  /\ extName \notin cfg.fileTypes

\* `${prefix}${padId}/${randomUUID()}${safeExt}`
UploadKey(cfg, padId, uuid, extName) ==
  PrefixOf(cfg.storage) \o padId \o <<"/">> \o uuid \o <<".">> \o extName

\* new PutObjectCommand({...}) and the options of getSignedUrl.
PutCommand(cfg, key, name, type) ==
  [op |-> "PUT", Bucket |-> cfg.storage.bucket, Key |-> key, ContentType |-> type,
   Disposition |-> "attachment", Filename |-> Sanitize(basename(name)),
   ResponseContentType |-> "",
   expiresIn |-> IF cfg.storage.expires = 0 THEN 600 ELSE cfg.storage.expires]

\* The upload handler from the rate limit to the call of getSignedUrl, for a
\* request q the oracle has granted: the request as it is left.
PresignChecks(q, cfg, sdk, store, t0, uuid) ==
  IF ~RateLimitAllows(store, q.clientIp, t0)
    THEN FailLogged([q EXCEPT !.limiter = "refused", !.limitedAt = t0], 429, "Too many presign requests",
                    LogLine("warn", "UPLOAD_RATE_LIMITED", q.clientIp, q.padId, ""))
  ELSE LET a == [q EXCEPT !.limiter = "allowed", !.limitedAt = t0]
           extName == getValidExtension(a.name)
       IN IF StorageNotConfigured(cfg)
            THEN Fail(a, 400, "s3_presigned storage not configured")
          ELSE IF ~sdk
            THEN Fail(a, 500, "AWS SDK not available on server")
          ELSE IF BucketOrRegionMissing(cfg)
            THEN Fail(a, 500, "Invalid S3 configuration: missing bucket or region")
          ELSE IF Falsy(a.name) \/ Falsy(a.type)
            THEN Fail(a, 400, "Missing name or type query parameters")
          ELSE IF extName = Null
            THEN Fail(a, 400, "Invalid filename: missing extension")
          ELSE IF FileTypeRefused(cfg, extName)
            THEN Fail(a, 400, "File type not allowed")
          ELSE IF isValidMimeForExtension_throws(extName, a.type)
            THEN FailLogged(a, 500, "Failed to generate presigned URL",
                            LogLine("error", "S3 presign error", "", Undefined, ""))
          ELSE IF ~isValidMimeForExtension(extName, a.type)
            THEN FailLogged(a, 400, "MIME type does not match file extension",
                            LogLine("warn", "MIME mismatch", "", Undefined, ""))
          ELSE [a EXCEPT !.pc = "getSignedUrl",
                         !.command = PutCommand(cfg, UploadKey(cfg, a.padId, uuid, extName),
                                                a.name, a.type)]

\* The access test with every settled answer taken as a grant.
AccessGranted_Always(result) == TRUE

\* accessResult.accessStatus !== 'grant', negated.
AccessGranted(result) == result = "grant"

\* A request arrives at the upload route and runs to its first await: the
\* pad id check, the SecurityManager check, then checkAccess is called.
PresignStart(r, padId, name, type, cookie, ip) ==
  /\ reqs[r].pc = "idle"
  /\ LET q == NewReq("s3_presign", padId, Undefined, name, type, cookie, ip)
     IN reqs' = [reqs EXCEPT ![r] =
          IF ~isValidPadId(padId)
            THEN Fail(q, 400, "Invalid pad ID")
          ELSE IF ~securityManager
            THEN FailLogged(q, 500, "Security module unavailable",
                            LogLine("error", "SecurityManager unavailable", "", Undefined, ""))
          ELSE [q EXCEPT !.pc = "checkAccess", !.oraclePad = padId]]
  /\ UNCHANGED <<client, unswept, securityManager, awsSdk, settings,
                 now, nextCleanup, presignRateStore,
                 lastCheck, vcase>>

\* checkAccess settles for an upload request: a status other than grant, an
\* exception, or grant followed by the rest of the handler up to the await
\* of getSignedUrl.
PresignAccess(r, result, uuid) ==
  /\ reqs[r].pc = "checkAccess"
  /\ reqs[r].route = "s3_presign"
  /\ LET q == [reqs[r] EXCEPT !.access = result]
     IN CASE result # "throw" /\ ~AccessGranted(result) ->
               /\ reqs' = [reqs EXCEPT ![r] =
                    FailLogged(q, 403, "Access denied to this pad",
                               LogLine("warn", "UPLOAD_DENIED", q.clientIp, q.padId, ""))]
               /\ UNCHANGED <<presignRateStore, unswept>>
          [] result = "throw" ->
               /\ reqs' = [reqs EXCEPT ![r] =
                    FailLogged(q, 500, "Access verification failed",
                               LogLine("error", "Access check error", "", Undefined, ""))]
               /\ UNCHANGED <<presignRateStore, unswept>>
          [] result # "throw" /\ AccessGranted(result) ->
               /\ reqs' = [reqs EXCEPT ![r] =
                    PresignChecks([q EXCEPT !.authorId = "a.author"], settings, awsSdk,
                                  presignRateStore, now, uuid)]
               /\ presignRateStore' = RateLimitStore(presignRateStore, q.clientIp, now)
               /\ unswept' = RateLimitStore(unswept, q.clientIp, now)
  /\ UNCHANGED <<client, securityManager, awsSdk, settings,
                 now, nextCleanup, lastCheck, vcase>>

\* The download link of the upload response with a direct bucket URL in
\* place of the route of the download handler.
DownloadUrl_Direct(padId, key) == [padId |-> <<>>, file |-> key]

\* `/p/${encodeURIComponent(padId)}/pluginfw/ep_media_upload/download?file=${encodeURIComponent(fileId)}`
DownloadUrl(padId, key) ==
  [padId |-> encodeURIComponent(padId), file |-> encodeURIComponent(basename(key))]

\* getSignedUrl settles for an upload request: the response with the signed
\* URL, the download link and the disposition, or the catch block.
PresignSigned(r, outcome) ==
  /\ reqs[r].pc = "getSignedUrl"
  /\ reqs[r].route = "s3_presign"
  /\ LET q == reqs[r]
     IN reqs' = [reqs EXCEPT ![r] =
          IF outcome = "ok"
            THEN [q EXCEPT !.pc = "done", !.status = 200, !.signedUrl = q.command,
                           !.downloadUrl = DownloadUrl(q.padId, q.command.Key),
                           !.logs = Append(@, LogLine("info", "UPLOAD", q.clientIp, q.padId,
                                                      q.authorId))]
            ELSE FailLogged(q, 500, "Failed to generate presigned URL",
                            LogLine("error", "S3 presign error", "", Undefined, ""))]
  /\ UNCHANGED <<client, unswept, securityManager, awsSdk, settings,
                 now, nextCleanup, presignRateStore,
                 lastCheck, vcase>>

(***************************************************************************)
(* The download route: GET /p/:padId/pluginfw/ep_media_upload/download     *)
(***************************************************************************)

\* The download key without the pad id.
DownloadKey_NoPad(cfg, padId, fileId) == PrefixOf(cfg.storage) \o fileId

\* `${prefix}${padId}/${fileId}`
DownloadKey(cfg, padId, fileId) == PrefixOf(cfg.storage) \o padId \o <<"/">> \o fileId

\* The inline test with the extensions compared as they are written.
ShouldOpenInline_CaseSensitive(cfg, fileExtension) ==
  /\ fileExtension # Null
  /\ cfg.inlineExtensions # {Undefined}
  /\ fileExtension \in cfg.inlineExtensions

\* shouldOpenInline: the extension, lowercased, is among the lowercased
\* inlineExtensions.
ShouldOpenInline(cfg, fileExtension) ==
  /\ fileExtension # Null
  /\ cfg.inlineExtensions # {Undefined}
  /\ toLowerCase(fileExtension) \in {toLowerCase(e) : e \in cfg.inlineExtensions}

\* new GetObjectCommand(commandParams) and the options of getSignedUrl.
GetCommand(cfg, padId, fileId) ==
  LET fileExtension == getValidExtension(fileId)
      inline == ShouldOpenInline(cfg, fileExtension)
  IN [op |-> "GET", Bucket |-> cfg.storage.bucket, Key |-> DownloadKey(cfg, padId, fileId),
      ContentType |-> Undefined,
      Disposition |-> IF inline THEN "inline" ELSE "attachment",
      Filename |-> Sanitize(fileId),
      ResponseContentType |-> IF inline THEN EXTENSION_CONTENT_TYPE(toLowerCase(fileExtension))
                                        ELSE "",
      expiresIn |-> IF cfg.storage.downloadExpires = 0 THEN 300 ELSE cfg.storage.downloadExpires]

\* The download handler from the rate limit to the call of getSignedUrl, for
\* a request q the oracle has granted.
DownloadChecks(q, cfg, sdk, store, t0) ==
  IF ~RateLimitAllows(store, q.clientIp, t0)
    THEN FailLogged([q EXCEPT !.limiter = "refused", !.limitedAt = t0], 429, "Too many download requests",
                    LogLine("warn", "DOWNLOAD_RATE_LIMITED", q.clientIp, q.padId, ""))
  ELSE LET a == [q EXCEPT !.limiter = "allowed", !.limitedAt = t0]
       IN IF StorageNotConfigured(cfg)
            THEN Fail(a, 400, "s3_presigned storage not configured")
          ELSE IF ~sdk
            THEN Fail(a, 500, "AWS SDK not available on server")
          ELSE IF BucketOrRegionMissing(cfg)
            THEN Fail(a, 500, "Invalid S3 configuration: missing bucket or region")
          ELSE [a EXCEPT !.pc = "getSignedUrl", !.command = GetCommand(cfg, a.padId, a.file)]

\* The first two checks of the download handler in the opposite order of
\* evaluation, the object id check skipped.
DownloadInputError_NoFileCheck(padId, fileId) ==
  IF ~isValidPadId(padId) THEN "Invalid pad ID" ELSE ""

\* The input checks of the download handler with the file id tested before
\* the pad id.
DownloadInputError_FileFirst(padId, fileId) ==
  IF ~isValidFileId(fileId) THEN "Invalid file ID"
  ELSE IF ~isValidPadId(padId) THEN "Invalid pad ID"
  ELSE ""

\* The input checks of the download handler: the error of the first check
\* that fails, or "" when both pass.
DownloadInputError(padId, fileId) ==
  IF ~isValidPadId(padId) THEN "Invalid pad ID"
  ELSE IF ~isValidFileId(fileId) THEN "Invalid file ID"
  ELSE ""

\* The download handler up to its first await, for a request in slot r.
\* fromKey is the storage key of the upload whose download link the request
\* follows, or <<>>.
StartDownload(r, padId, fileId, cookie, ip, fromKey) ==
  LET q == [NewReq("download", padId, fileId, Undefined, Undefined, cookie, ip)
                 EXCEPT !.fromKey = fromKey]
     IN reqs' = [reqs EXCEPT ![r] =
          IF DownloadInputError(padId, fileId) # ""
            THEN Fail(q, 400, DownloadInputError(padId, fileId))
          ELSE IF ~securityManager
            THEN FailLogged(q, 500, "Security module unavailable",
                            LogLine("error", "SecurityManager unavailable", "", Undefined, ""))
          ELSE [q EXCEPT !.pc = "checkAccess", !.oraclePad = padId]]

\* A download request that follows no upload arrives at a free slot.
DownloadStart(r, padId, fileId, cookie, ip) ==
  /\ reqs[r].pc = "idle"
  /\ StartDownload(r, padId, fileId, cookie, ip, <<>>)
  /\ UNCHANGED <<client, unswept, securityManager, awsSdk, settings,
                 now, nextCleanup, presignRateStore,
                 lastCheck, vcase>>

\* The client follows the download link of the upload response in slot r:
\* express decodes the path parameter and the query value.
DownloadFollow(r, cookie) ==
  /\ reqs[r].pc = "done"
  /\ reqs[r].route = "s3_presign"
  /\ reqs[r].status = 200
  /\ StartDownload(r, decodeURIComponent(reqs[r].downloadUrl.padId),
                   decodeURIComponent(reqs[r].downloadUrl.file), cookie,
                   reqs[r].clientIp, reqs[r].signedUrl.Key)
  /\ UNCHANGED <<client, unswept, securityManager, awsSdk, settings,
                 now, nextCleanup, presignRateStore,
                 lastCheck, vcase>>

\* checkAccess settles for a download request.
DownloadAccess(r, result) ==
  /\ reqs[r].pc = "checkAccess"
  /\ reqs[r].route = "download"
  /\ LET q == [reqs[r] EXCEPT !.access = result]
     IN CASE result # "throw" /\ ~AccessGranted(result) ->
               /\ reqs' = [reqs EXCEPT ![r] =
                    FailLogged(q, 403, "Access denied to this pad",
                               LogLine("warn", "DOWNLOAD_DENIED", q.clientIp, q.padId, ""))]
               /\ UNCHANGED <<presignRateStore, unswept>>
          [] result = "throw" ->
               /\ reqs' = [reqs EXCEPT ![r] =
                    FailLogged(q, 500, "Access verification failed",
                               LogLine("error", "Download access check error", "", Undefined, ""))]
               /\ UNCHANGED <<presignRateStore, unswept>>
          [] result # "throw" /\ AccessGranted(result) ->
               /\ reqs' = [reqs EXCEPT ![r] =
                    DownloadChecks([q EXCEPT !.authorId = "a.author"], settings, awsSdk,
                                   presignRateStore, now)]
               /\ presignRateStore' = RateLimitStore(presignRateStore, q.clientIp, now)
               /\ unswept' = RateLimitStore(unswept, q.clientIp, now)
  /\ UNCHANGED <<client, securityManager, awsSdk, settings,
                 now, nextCleanup, lastCheck, vcase>>

\* getSignedUrl settles for a download request: the redirect, or the catch
\* block (404 for NoSuchKey, else 500).
DownloadSigned(r, outcome) ==
  /\ reqs[r].pc = "getSignedUrl"
  /\ reqs[r].route = "download"
  /\ LET q == reqs[r]
     IN reqs' = [reqs EXCEPT ![r] =
          CASE outcome = "ok" ->
                 [q EXCEPT !.pc = "done", !.status = 302, !.signedUrl = q.command,
                           !.logs = Append(@, LogLine("info", "DOWNLOAD", q.clientIp, q.padId,
                                                      q.authorId))]
            [] outcome = "NoSuchKey" ->
                 FailLogged(q, 404, "File not found",
                            LogLine("error", "Download presign error", "", Undefined, ""))
            [] OTHER ->
                 FailLogged(q, 500, "Failed to generate download URL",
                            LogLine("error", "Download presign error", "", Undefined, ""))]
  /\ UNCHANGED <<client, unswept, securityManager, awsSdk, settings,
                 now, nextCleanup, presignRateStore,
                 lastCheck, vcase>>

\* The response of slot r has been sent; the slot is free again.
Release(r) ==
  /\ reqs[r].pc = "done"
  /\ reqs' = [reqs EXCEPT ![r] = IdleReq]
  /\ UNCHANGED <<client, unswept, securityManager, awsSdk, settings,
                 now, nextCleanup, presignRateStore,
                 lastCheck, vcase>>

(***************************************************************************)
(* The clock and the cleanup timer                                         *)
(***************************************************************************)

\* Time passes: Date.now() reaches t.
AdvanceClock(t) ==
  /\ t > now
  /\ now' = t
  /\ UNCHANGED <<client, unswept, securityManager, awsSdk, settings,
                 nextCleanup, presignRateStore, reqs,
                 lastCheck, vcase>>

\* The setInterval callback runs once it is due, and is due again one
\* interval later.
Cleanup ==
  /\ now >= nextCleanup
  /\ presignRateStore' = CleanedStore(presignRateStore, now)
  /\ nextCleanup' = now + RATE_CLEANUP_INTERVAL_MS
  /\ UNCHANGED <<client, unswept, securityManager, awsSdk, settings,
                 now, reqs, lastCheck, vcase>>

(***************************************************************************)
(* The server: both routes, the clock and the cleanup timer                *)
(***************************************************************************)

\* The request slots of the model.
Slots == {"r1"}

\* The number of rate windows the clock is followed through after process
\* start and after each run of the cleanup timer.
MaxWindows == 0

\* The values of Date.now() the model visits.
ClockValues ==
  {k * PRESIGN_RATE_WINDOW_MS : k \in 0..MaxWindows}
    \cup {RATE_CLEANUP_INTERVAL_MS + k * PRESIGN_RATE_WINDOW_MS : k \in 0..MaxWindows}

\* The caller address of the requests (req.ip).
ClientIps == {"10.0.0.1"}

PadA == Chars("padA")
GroupPad == Chars("g.x$p:1")
BadPad == Chars("../padB")
PdfMime == Chars("application/pdf")

\* The uploads of the model: <<padId, name, type, cookie>>.
UploadInputs ==
  {<<PadA, Chars("report.pdf"), PdfMime, TRUE>>,
   <<PadA, Chars("report.pdf"), PdfMime, FALSE>>,
   <<BadPad, Chars("report.pdf"), PdfMime, TRUE>>,
   <<GroupPad, Chars("my report.pdf"), PdfMime, TRUE>>,
   <<PadA, Chars("song.MP3"), Chars("Audio/MPEG; q=1"), TRUE>>,
   <<PadA, Chars("page.txt"), Chars("text/html"), TRUE>>,
   <<PadA, Chars("archive.tar-gz"), Chars("application/gzip"), TRUE>>,
   <<PadA, Chars("noext"), Chars("text/plain"), TRUE>>,
   <<PadA, Undefined, PdfMime, TRUE>>,
   <<PadA, Chars("x.constructor"), Chars("text/plain"), TRUE>>}

FileA == Chars("a1b2c3d4-e5f6-7890-abcd-ef1234567890.pdf")
FileB == Chars("A1B2C3D4-E5F6-7890-ABCD-EF1234567890.Mp3")
FileC == Chars("00000000-0000-4000-8000-0000000000c3.png")

\* The downloads of the model that follow no upload: <<padId, file, cookie>>.
DownloadInputs ==
  {<<PadA, FileA, TRUE>>,
   <<PadA, FileA, FALSE>>,
   <<PadA, FileB, TRUE>>,
   <<PadA, FileC, TRUE>>,
   <<PadA, Chars("../../etc/passwd"), TRUE>>,
   <<PadA, Undefined, TRUE>>,
   <<PadA, NotAString, TRUE>>,
   <<BadPad, FileA, TRUE>>,
   <<BadPad, Chars("../../etc/passwd"), TRUE>>}

\* The deployments of the model: whether SecurityManager and the AWS SDK
\* were loaded, and the settings.
Deployments ==
  {<<TRUE, TRUE, SettingsPlain>>, <<TRUE, TRUE, SettingsStrict>>,
   <<TRUE, TRUE, SettingsNoStorage>>, <<TRUE, TRUE, SettingsNoBucket>>,
   <<TRUE, FALSE, SettingsPlain>>, <<FALSE, TRUE, SettingsPlain>>}

NoCheck ==
  [ip |-> "", at |-> -1, allowed |-> FALSE, unsweptAllowed |-> FALSE, before |-> <<>>,
   after |-> <<>>]
NoCase ==
  [fn |-> "none", arg |-> <<>>, type |-> Undefined, ok |-> FALSE, threw |-> FALSE, ext |-> Null]

\* The state once the module is loaded and the routes are registered.
Init ==
  /\ \E d \in Deployments :
       /\ securityManager = d[1]
       /\ awsSdk = d[2]
       /\ settings = d[3]
  /\ now = 0
  /\ client = NoClient
  /\ unswept = <<>>
  /\ nextCleanup = RATE_CLEANUP_INTERVAL_MS
  /\ presignRateStore = <<>>
  /\ reqs = [r \in Slots |-> IdleReq]
  /\ lastCheck = NoCheck
  /\ vcase = NoCase

OracleResults == {"grant", "deny", "throw"}
SignerOutcomes == {"ok", "error", "NoSuchKey"}

Next ==
  \/ \E r \in Slots, u \in UploadInputs, ip \in ClientIps :
       PresignStart(r, u[1], u[2], u[3], u[4], ip)
  \/ \E r \in Slots, res \in OracleResults, uuid \in UUIDs : PresignAccess(r, res, uuid)
  \/ \E r \in Slots, o \in SignerOutcomes : PresignSigned(r, o)
  \/ \E r \in Slots, d \in DownloadInputs, ip \in ClientIps :
       DownloadStart(r, d[1], d[2], d[3], ip)
  \/ \E r \in Slots, c \in BOOLEAN : DownloadFollow(r, c)
  \/ \E r \in Slots, res \in OracleResults : DownloadAccess(r, res)
  \/ \E r \in Slots, o \in SignerOutcomes : DownloadSigned(r, o)
  \/ \E r \in Slots : Release(r)
  \/ \E t \in ClockValues : AdvanceClock(t)
  \/ Cleanup

Spec == Init /\ [][Next]_vars

(***************************************************************************)
(* The earlier revision of the upload route (expressConfigure hook): the   *)
(* same checks, but a cookie test stands in for checkAccess when           *)
(* SecurityManager is not loaded, and the response carries a bucket URL    *)
(***************************************************************************)

\* hasExpressSession || hasPadCookie: the request carries a session or a
\* sessionID/token cookie.
HasSessionOrCookie(q) == q.cookie

\* `https://${bucket}.s3.${region}.amazonaws.com/` resolved with the key.
PublicUrl(cfg, key) == Chars("https://bucket.s3.eu-west-1.amazonaws.com/") \o key

\* The handler from the rate limit to the call of getSignedUrl.
ConfigurePresignChecks(q, cfg, sdk, store, t0, uuid) ==
  IF ~RateLimitAllows(store, q.clientIp, t0)
    THEN Fail([q EXCEPT !.limiter = "refused", !.limitedAt = t0], 429, "Too many presign requests")
  ELSE LET a == [q EXCEPT !.limiter = "allowed", !.limitedAt = t0]
           extName == getValidExtension(a.name)
       IN IF StorageNotConfigured(cfg)
            THEN Fail(a, 400, "s3_presigned storage not configured")
          ELSE IF ~sdk
            THEN Fail(a, 500, "AWS SDK not available on server")
          ELSE IF BucketOrRegionMissing(cfg)
            THEN Fail(a, 500, "Invalid S3 configuration: missing bucket or region")
          ELSE IF Falsy(a.name) \/ Falsy(a.type)
            THEN Fail(a, 400, "Missing name or type query parameters")
          ELSE IF extName = Null
            THEN Fail(a, 400, "Invalid filename: missing extension")
          ELSE IF FileTypeRefused(cfg, extName)
            THEN Fail(a, 400, "File type not allowed")
          ELSE IF isValidMimeForExtension_throws(extName, a.type)
            THEN FailLogged(a, 500, "Failed to generate presigned URL",
                            LogLine("error", "S3 presign error", "", Undefined, ""))
          ELSE IF ~isValidMimeForExtension(extName, a.type)
            THEN FailLogged(a, 400, "MIME type does not match file extension",
                            LogLine("warn", "MIME mismatch", "", Undefined, ""))
          ELSE [a EXCEPT !.pc = "getSignedUrl",
                         !.command = PutCommand(cfg, UploadKey(cfg, a.padId, uuid, extName),
                                                a.name, a.type)]

\* A request arrives: the pad id check, then checkAccess when
\* SecurityManager is loaded, else the cookie test and the rest of the
\* handler up to the await of getSignedUrl.
ConfigurePresignStart(r, padId, name, type, cookie, ip, uuid) ==
  /\ reqs[r].pc = "idle"
  /\ LET q == NewReq("s3_presign", padId, Undefined, name, type, cookie, ip)
         passes == isValidPadId(padId) /\ ~securityManager /\ HasSessionOrCookie(q)
     IN /\ reqs' = [reqs EXCEPT ![r] =
             IF ~isValidPadId(padId)
               THEN Fail(q, 400, "Invalid pad ID")
             ELSE IF securityManager
               THEN [q EXCEPT !.pc = "checkAccess", !.oraclePad = padId]
             ELSE IF ~HasSessionOrCookie(q)
               THEN Fail(q, 401, "Authentication required")
             ELSE ConfigurePresignChecks(q, settings, awsSdk, presignRateStore, now, uuid)]
        /\ presignRateStore' = IF passes THEN RateLimitStore(presignRateStore, ip, now)
                                         ELSE presignRateStore
        /\ unswept' = IF passes THEN RateLimitStore(unswept, ip, now) ELSE unswept
  /\ UNCHANGED <<client, securityManager, awsSdk, settings,
                 now, nextCleanup, lastCheck, vcase>>

\* checkAccess settles.
ConfigurePresignAccess(r, result, uuid) ==
  /\ reqs[r].pc = "checkAccess"
  /\ reqs[r].route = "s3_presign"
  /\ LET q == [reqs[r] EXCEPT !.access = result]
     IN CASE result # "throw" /\ ~AccessGranted(result) ->
               /\ reqs' = [reqs EXCEPT ![r] = Fail(q, 403, "Access denied to this pad")]
               /\ UNCHANGED <<presignRateStore, unswept>>
          [] result = "throw" ->
               /\ reqs' = [reqs EXCEPT ![r] =
                    FailLogged(q, 500, "Access verification failed",
                               LogLine("error", "Access check error", "", Undefined, ""))]
               /\ UNCHANGED <<presignRateStore, unswept>>
          [] result # "throw" /\ AccessGranted(result) ->
               /\ reqs' = [reqs EXCEPT ![r] =
                    ConfigurePresignChecks(q, settings, awsSdk, presignRateStore, now, uuid)]
               /\ presignRateStore' = RateLimitStore(presignRateStore, q.clientIp, now)
               /\ unswept' = RateLimitStore(unswept, q.clientIp, now)
  /\ UNCHANGED <<client, securityManager, awsSdk, settings,
                 now, nextCleanup, lastCheck, vcase>>

\* getSignedUrl settles: the response with the signed URL and the public
\* bucket URL, or the catch block.
ConfigurePresignSigned(r, outcome) ==
  /\ reqs[r].pc = "getSignedUrl"
  /\ reqs[r].route = "s3_presign"
  /\ LET q == reqs[r]
     IN reqs' = [reqs EXCEPT ![r] =
          IF outcome = "ok"
            THEN [q EXCEPT !.pc = "done", !.status = 200, !.signedUrl = q.command,
                           !.publicUrl = PublicUrl(settings, q.command.Key),
                           !.logs = Append(@, LogLine("info", "UPLOAD", "", q.padId, ""))]
            ELSE FailLogged(q, 500, "Failed to generate presigned URL",
                            LogLine("error", "S3 presign error", "", Undefined, ""))]
  /\ UNCHANGED <<client, unswept, securityManager, awsSdk, settings,
                 now, nextCleanup, presignRateStore,
                 lastCheck, vcase>>

NextExpressConfigure ==
  \/ \E r \in Slots, u \in UploadInputs, ip \in ClientIps, uuid \in UUIDs :
       ConfigurePresignStart(r, u[1], u[2], u[3], u[4], ip, uuid)
  \/ \E r \in Slots, res \in OracleResults, uuid \in UUIDs : ConfigurePresignAccess(r, res, uuid)
  \/ \E r \in Slots, o \in SignerOutcomes : ConfigurePresignSigned(r, o)
  \/ \E r \in Slots : Release(r)
  \/ \E t \in ClockValues : AdvanceClock(t)
  \/ Cleanup

SpecExpressConfigure == Init /\ [][NextExpressConfigure]_vars

(***************************************************************************)
(* The rate limiter alone: direct calls of _rateLimitCheck by two callers  *)
(* under a clock that moves in half windows                                *)
(***************************************************************************)

\* The number of half windows the clock is followed through.
MaxHalfWindows == 2

\* The number of requests the second caller has on record at most.
MaxOtherStamps == 1

RateClockValues == {k * (PRESIGN_RATE_WINDOW_MS \div 2) : k \in 0..MaxHalfWindows}

Caller == "10.0.0.1"
OtherCaller == "10.0.0.2"

\* One call of _rateLimitCheck(ip), with its result and the store before
\* and after it put on record.
RateLimitCall(ip) ==
  /\ ip = OtherCaller => Len(StampsOf(presignRateStore, ip)) < MaxOtherStamps
  /\ presignRateStore' = RateLimitStore(presignRateStore, ip, now)
  /\ unswept' = RateLimitStore(unswept, ip, now)
  /\ lastCheck' = [ip |-> ip, at |-> now,
                   allowed |-> RateLimitAllows(presignRateStore, ip, now),
                   unsweptAllowed |-> RateLimitAllows(unswept, ip, now),
                   before |-> presignRateStore, after |-> presignRateStore']
  /\ UNCHANGED <<client, securityManager, awsSdk, settings,
                 now, nextCleanup, reqs, vcase>>

\* The process has run for some time without a request: the cleanup timer
\* is due at any of the clock values, or after them.
InitRate ==
  /\ securityManager = TRUE
  /\ awsSdk = TRUE
  /\ settings = SettingsPlain
  /\ now = 0
  /\ client = NoClient
  /\ unswept = <<>>
  /\ nextCleanup \in RateClockValues \cup {RATE_CLEANUP_INTERVAL_MS}
  /\ presignRateStore = <<>>
  /\ reqs = [r \in Slots |-> IdleReq]
  /\ lastCheck = NoCheck
  /\ vcase = NoCase

NextRate ==
  \/ \E ip \in {Caller, OtherCaller} : RateLimitCall(ip)
  \/ \E t \in RateClockValues : AdvanceClock(t)
  \/ Cleanup

SpecRate == InitRate /\ [][NextRate]_vars

(***************************************************************************)
(* The validators alone, applied to the strings of a small alphabet, to    *)
(* the variants of a well-formed file id and to values that are no strings *)
(***************************************************************************)

\* The longest string of the exhaustive part of the inputs.
MaxLen == 3

Alphabet == {"a", ".", "/", "\\", NUL, "\n", "$"}

SmallStrings == UNION {[1..n -> Alphabet] : n \in 0..MaxLen}

\* Strings at the length limit of the pad id, and past it.
LongStrings ==
  {Rep("a", 500), Rep("a", 501), Rep("a", 499) \o <<"/">>, Rep("a", 500) \o <<".">>}

\* FileA with the code unit at position i replaced by c.
Replaced(s, i, c) == [s EXCEPT ![i] = c]

FileIdVariants ==
  {FileA, FileB}
    \cup {Replaced(FileA, i, c) : i \in 1..Len(FileA), c \in {"g", "-", ".", "/", "0", "F", "\n", "_"}}
    \cup {SubSeq(FileA, 1, n) : n \in 1..Len(FileA)}
    \cup {SubSeq(FileA, n, Len(FileA)) : n \in 2..Len(FileA)}
    \cup {FileA \o <<c>> : c \in {"x", "\n", ".", "/", NUL, " "}}
    \cup {<<c>> \o FileA : c \in {"a", "/", " "}}
    \cup {SubSeq(FileA, 1, UuidLen + 1) \o Rep("z", n) : n \in 62..65}

\* A code unit outside ASCII.
EAcute == "U+00E9"

\* Original filenames as a browser or a hand-made request sends them.
NameInputs ==
  {Chars("report.pdf"), Chars("my report.pdf"), Chars("dir/report.pdf"),
   Chars("a\"b;c.txt"), Chars("r\r\n.pdf"), <<"r", EAcute, "s">> \o Chars(".pdf"),
   Chars("a_b-c.d.TXT"), Chars("x.pdf/"), Chars("..\\evil.pdf"), Chars("../../e.pdf")}

ValidatorInputs ==
  SmallStrings \cup LongStrings \cup FileIdVariants \cup NameInputs
    \cup {Undefined, Null, NotAString}

\* Extensions and declared types for isValidMimeForExtension.
MimeExtensions ==
  {Chars("txt"), Chars("TXT"), Chars("pdf"), Chars("csv"), Chars("mp3"), Chars("7z"),
   Chars("xyz"), Chars("tar-gz"), Chars("constructor"), Chars("__proto__"), <<>>, Undefined}

MimeTypes ==
  {Chars("text/html"), Chars("text/plain"), Chars("TEXT/PLAIN; charset=utf-8"),
   Chars(" Text/Plain ;x"), Chars("text/plain;"), Chars(";text/plain"), Chars("text/plain x"),
   Chars("application/pdf"), Chars("audio/mp3"), Chars("application/x-7z-compressed"),
   <<>>, Undefined, NotAString}

InitValidators ==
  /\ securityManager = TRUE
  /\ awsSdk = TRUE
  /\ settings = SettingsPlain
  /\ now = 0
  /\ client = NoClient
  /\ unswept = <<>>
  /\ nextCleanup = RATE_CLEANUP_INTERVAL_MS
  /\ presignRateStore = <<>>
  /\ reqs = [r \in Slots |-> IdleReq]
  /\ lastCheck = NoCheck
  /\ vcase \in {[NoCase EXCEPT !.arg = s] : s \in ValidatorInputs}
                \cup {[NoCase EXCEPT !.arg = e, !.type = t] : e \in MimeExtensions, t \in MimeTypes}

\* isValidPadId is applied to the input.
ApplyIsValidPadId ==
  /\ vcase.fn = "none"
  /\ vcase' = [vcase EXCEPT !.fn = "isValidPadId", !.ok = isValidPadId(vcase.arg)]
  /\ UNCHANGED <<client, unswept, securityManager, awsSdk, settings,
                 now, nextCleanup, presignRateStore,
                 reqs, lastCheck>>

\* isValidFileId is applied to the input.
ApplyIsValidFileId ==
  /\ vcase.fn = "none"
  /\ vcase' = [vcase EXCEPT !.fn = "isValidFileId", !.ok = isValidFileId(vcase.arg)]
  /\ UNCHANGED <<client, unswept, securityManager, awsSdk, settings,
                 now, nextCleanup, presignRateStore,
                 reqs, lastCheck>>

\* getValidExtension is applied to the input.
ApplyGetValidExtension ==
  /\ vcase.fn = "none"
  /\ vcase' = [vcase EXCEPT !.fn = "getValidExtension", !.ext = getValidExtension(vcase.arg),
                            !.ok = getValidExtension(vcase.arg) # Null]
  /\ UNCHANGED <<client, unswept, securityManager, awsSdk, settings,
                 now, nextCleanup, presignRateStore,
                 reqs, lastCheck>>

\* isValidMimeForExtension is applied to the extension and the declared
\* type: it returns a verdict, or throws.
ApplyIsValidMimeForExtension ==
  /\ vcase.fn = "none"
  /\ IsString(vcase.arg) \/ vcase.arg = Undefined
  /\ vcase' = [vcase EXCEPT !.fn = "isValidMimeForExtension",
                            !.threw = isValidMimeForExtension_throws(vcase.arg, vcase.type),
                            !.ok = /\ ~isValidMimeForExtension_throws(vcase.arg, vcase.type)
                                   /\ isValidMimeForExtension(vcase.arg, vcase.type)]
  /\ UNCHANGED <<client, unswept, securityManager, awsSdk, settings,
                 now, nextCleanup, presignRateStore,
                 reqs, lastCheck>>

\* The upload handler derives the Content-Disposition filename of a name
\* that passed its extension check.
ApplySafeFilename ==
  /\ vcase.fn = "none"
  /\ getValidExtension(vcase.arg) # Null
  /\ vcase' = [vcase EXCEPT !.fn = "safeFilename", !.ok = TRUE,
                            !.ext = Sanitize(basename(vcase.arg))]
  /\ UNCHANGED <<client, unswept, securityManager, awsSdk, settings,
                 now, nextCleanup, presignRateStore,
                 reqs, lastCheck>>

NextValidators ==
  \/ ApplySafeFilename
  \/ ApplyIsValidPadId
  \/ ApplyIsValidFileId
  \/ ApplyGetValidExtension
  \/ ApplyIsValidMimeForExtension

SpecValidators == InitValidators /\ [][NextValidators]_vars

(***************************************************************************)
(* Two requests in flight at once, each handled once                       *)
(***************************************************************************)

TwoSlots == {"r1", "r2"}

InitTwo ==
  /\ \E d \in {<<TRUE, TRUE, SettingsPlain>>, <<TRUE, TRUE, SettingsStrict>>} :
       /\ securityManager = d[1]
       /\ awsSdk = d[2]
       /\ settings = d[3]
  /\ now = 0
  /\ client = NoClient
  /\ unswept = <<>>
  /\ nextCleanup = RATE_CLEANUP_INTERVAL_MS
  /\ presignRateStore = <<>>
  /\ reqs = [r \in TwoSlots |-> IdleReq]
  /\ lastCheck = NoCheck
  /\ vcase = NoCase

NextTwo ==
  \/ \E r \in TwoSlots, u \in UploadInputs, ip \in ClientIps :
       PresignStart(r, u[1], u[2], u[3], u[4], ip)
  \/ \E r \in TwoSlots, res \in OracleResults, uuid \in UUIDs : PresignAccess(r, res, uuid)
  \/ \E r \in TwoSlots, o \in SignerOutcomes : PresignSigned(r, o)
  \/ \E r \in TwoSlots, d \in DownloadInputs, ip \in ClientIps :
       DownloadStart(r, d[1], d[2], d[3], ip)
  \/ \E r \in TwoSlots, res \in OracleResults : DownloadAccess(r, res)
  \/ \E r \in TwoSlots, o \in SignerOutcomes : DownloadSigned(r, o)

SpecTwo == InitTwo /\ [][NextTwo]_vars

(***************************************************************************)
(* The rate limiter and its cleanup timer over several windows, the timer  *)
(* firing whenever it is due and time passing                              *)
(***************************************************************************)

\* The number of windows the clock is followed through.
MaxSweepWindows == 6

SweepClockValues == {k * PRESIGN_RATE_WINDOW_MS : k \in 0..MaxSweepWindows}

\* One call of _rateLimitCheck(ip) by a caller with few requests in the
\* window.
SweepCall(ip) ==
  /\ Len(ValidStamps(StampsOf(presignRateStore, ip), now)) < MaxOtherStamps
  /\ presignRateStore' = RateLimitStore(presignRateStore, ip, now)
  /\ unswept' = RateLimitStore(unswept, ip, now)
  /\ lastCheck' = [NoCheck EXCEPT !.ip = ip, !.at = now,
                                  !.allowed = RateLimitAllows(presignRateStore, ip, now),
                                  !.unsweptAllowed = RateLimitAllows(unswept, ip, now)]
  /\ UNCHANGED <<client, securityManager, awsSdk, settings,
                 now, nextCleanup, reqs, vcase>>

\* Time passes.
SweepTick == \E t \in SweepClockValues : AdvanceClock(t)

InitSweep ==
  /\ securityManager = TRUE
  /\ awsSdk = TRUE
  /\ settings = SettingsPlain
  /\ now = 0
  /\ client = NoClient
  /\ unswept = <<>>
  /\ nextCleanup = RATE_CLEANUP_INTERVAL_MS
  /\ presignRateStore = <<>>
  /\ reqs = [r \in Slots |-> IdleReq]
  /\ lastCheck = NoCheck
  /\ vcase = NoCase

NextSweep ==
  \/ \E ip \in {Caller, OtherCaller} : SweepCall(ip)
  \/ SweepTick
  \/ Cleanup

\* setInterval keeps firing the callback once it is due, and time passes.
SpecSweep == InitSweep /\ [][NextSweep]_vars /\ WF_vars(SweepTick) /\ WF_vars(Cleanup)

(***************************************************************************)
(* Two requests in flight at once under a moving clock and the cleanup     *)
(* timer, for a caller one request short of the limit                      *)
(***************************************************************************)

\* The requests of Caller the process has allowed at time 0 and answered
\* before the two requests of this specification arrive.
EarlierStamps == Rep(0, PRESIGN_RATE_MAX - 1)

ConcurrentUploads == {<<PadA, Chars("report.pdf"), PdfMime, TRUE>>}
ConcurrentDownloads == {<<PadA, FileA, TRUE>>}

\* The process has run for some time: the cleanup timer is due half a
\* window from now, and runs then or later.
InitConcurrent ==
  /\ securityManager = TRUE
  /\ awsSdk = TRUE
  /\ settings = SettingsPlain
  /\ now = 0
  /\ client = NoClient
  /\ unswept = MapSet(<<>>, Caller, EarlierStamps)
  /\ nextCleanup = PRESIGN_RATE_WINDOW_MS \div 2
  /\ presignRateStore = MapSet(<<>>, Caller, EarlierStamps)
  /\ reqs = [r \in TwoSlots |-> IdleReq]
  /\ lastCheck = NoCheck
  /\ vcase = NoCase

NextConcurrent ==
  \/ \E r \in TwoSlots, u \in ConcurrentUploads, ip \in {Caller, OtherCaller} :
       PresignStart(r, u[1], u[2], u[3], u[4], ip)
  \/ \E r \in TwoSlots, res \in OracleResults, uuid \in UUIDs : PresignAccess(r, res, uuid)
  \/ \E r \in TwoSlots, o \in SignerOutcomes : PresignSigned(r, o)
  \/ \E r \in TwoSlots, d \in ConcurrentDownloads, ip \in {Caller, OtherCaller} :
       DownloadStart(r, d[1], d[2], d[3], ip)
  \/ \E r \in TwoSlots, res \in OracleResults : DownloadAccess(r, res)
  \/ \E r \in TwoSlots, o \in SignerOutcomes : DownloadSigned(r, o)
  \/ \E t \in RateClockValues : AdvanceClock(t)
  \/ Cleanup

SpecConcurrent == InitConcurrent /\ [][NextConcurrent]_vars

(***************************************************************************)
(* The browser side (static/js/clientHooks.js): the user picks files, each *)
(* upload asks the server for a presigned URL, PUTs the file to storage    *)
(* and inserts a hyperlink; a modal shows progress, success or an error.   *)
(* The presign request is answered by the upload route of index.js or by   *)
(* its earlier revision.                                                   *)
(***************************************************************************)

\* The number of uploads the user starts.
MaxUploads == 2

UploadIds == 1..MaxUploads

\* No file picked yet.
NoFile == [name |-> <<>>, type |-> <<>>, size |-> 0]

\* An upload the user has not started.
IdleUpload ==
  [pc |-> "idle", file |-> NoFile, presignStatus |-> 0, signedUrl |-> NoCommand,
   publicUrl |-> <<>>, downloadUrl |-> NoUrl, put |-> "none", outcome |-> "none"]

\* The files the user picks: sizes in the unit of maxFileSize.
ClientFiles ==
  {[name |-> Chars("report.pdf"), type |-> PdfMime, size |-> 1],
   [name |-> Chars("setup.exe"), type |-> Chars("application/x-msdownload"), size |-> 1],
   [name |-> Chars("song.MP3"), type |-> Chars("audio/mpeg"), size |-> 60]}

\* file.name.split('.').pop()
SplitPop(name) ==
  IF ~IncludesChar(name, ".") THEN name
  ELSE LET last == CHOOSE i \in 1..Len(name) :
                     name[i] = "." /\ \A j \in (i + 1)..Len(name) : name[j] # "."
       IN SubSeq(name, last + 1, Len(name))

\* validateFile(file).valid, with clientVars.ep_media_upload as the
\* clientVars hook fills it from the settings.
ValidateFile(cfg, file) ==
  /\ cfg.fileTypes # {Undefined} => toLowerCase(SplitPop(file.name)) \in cfg.fileTypes
  /\ ~(cfg.maxFileSize # 0 /\ file.size > cfg.maxFileSize)

\* showModal(state)
ShowModal(state) == [visible |-> TRUE, shown |-> state]

\* hideModal()
HideModal(modal) == [modal EXCEPT !.visible = FALSE]

\* Nothing but the browser changes.
ServerUnchanged ==
  UNCHANGED <<unswept, securityManager, awsSdk, settings, now, nextCleanup,
              presignRateStore, reqs, lastCheck, vcase>>

\* The user picks a file: handleFileUpload up to its first await.
HandleFileUpload(u, file) ==
  /\ client.uploads[u].pc = "idle"
  /\ \A v \in 1..(u - 1) : client.uploads[v].pc # "idle"
  /\ client' =
       IF ~ValidateFile(settings, file)
         THEN [client EXCEPT !.modal = ShowModal("error"),
                             !.uploads[u] = [@ EXCEPT !.pc = "done", !.file = file,
                                                      !.outcome = "rejected"]]
         ELSE [client EXCEPT !.modal = ShowModal("progress"),
                             !.uploads[u] = [@ EXCEPT !.pc = "getJSON", !.file = file]]
  /\ ServerUnchanged

\* The presign request of upload u leaves the browser.
GetJSON(u) ==
  /\ client.uploads[u].pc = "getJSON"
  /\ client.serving = 0
  /\ reqs["r1"].pc = "idle"
  /\ client' = [client EXCEPT !.serving = u]
  /\ ServerUnchanged

\* $.getJSON settles for upload u: rejected when no 2xx answer arrives,
\* else the check of the answer's fields; the catch block shows the error.
PresignSettles(u, arrives) ==
  /\ client.serving = u
  /\ reqs["r1"].pc = "done"
  /\ LET res == reqs["r1"]
         got == [client.uploads[u] EXCEPT
                   !.presignStatus = IF arrives THEN res.status ELSE 0,
                   !.signedUrl = IF arrives THEN res.signedUrl ELSE NoCommand,
                   !.publicUrl = IF arrives THEN res.publicUrl ELSE <<>>,
                   !.downloadUrl = IF arrives THEN res.downloadUrl ELSE NoUrl]
     IN client' =
          IF got.presignStatus # 200 \/ got.signedUrl = NoCommand \/ got.publicUrl = <<>>
            THEN [client EXCEPT !.serving = 0, !.modal = ShowModal("error"),
                                !.uploads[u] = [got EXCEPT !.pc = "done", !.outcome = "error"]]
            ELSE [client EXCEPT !.serving = 0,
                                !.uploads[u] = [got EXCEPT !.pc = "put"]]
  /\ ServerUnchanged

\* fetch(signedUrl, PUT) settles for upload u: on an ok response the link
\* is inserted and showSuccess arms its timer; else the catch block.
PutSettles(u, ok) ==
  /\ client.uploads[u].pc = "put"
  /\ client' =
       IF ok
         THEN [client EXCEPT
                 !.links = Append(@, [url |-> client.uploads[u].publicUrl,
                                      text |-> client.uploads[u].file.name, by |-> u]),
                 !.modal = ShowModal("success"),
                 !.timers = @ + 1,
                 !.uploads[u] = [@ EXCEPT !.pc = "done", !.put = "ok", !.outcome = "success"]]
         ELSE [client EXCEPT
                 !.modal = ShowModal("error"),
                 !.uploads[u] = [@ EXCEPT !.pc = "done", !.put = "failed", !.outcome = "error"]]
  /\ ServerUnchanged

\* A setTimeout callback of showSuccess runs.
TimerFires ==
  /\ client.timers > 0
  /\ client' = [client EXCEPT !.timers = @ - 1, !.modal = HideModal(@)]
  /\ ServerUnchanged

\* The user clicks the close button of the error, or outside the modal
\* while the error is shown.
DismissError ==
  /\ client.modal.visible
  /\ client.modal.shown = "error"
  /\ client' = [client EXCEPT !.modal = HideModal(@)]
  /\ ServerUnchanged

InitClient ==
  /\ securityManager = TRUE
  /\ awsSdk = TRUE
  /\ settings \in {SettingsPlain, SettingsStrict}
  /\ now = 0
  /\ \E sv \in {"index.js", "part_001"} :
       client = [NoClient EXCEPT !.server = sv, !.uploads = [u \in UploadIds |-> IdleUpload]]
  /\ unswept = <<>>
  /\ nextCleanup = RATE_CLEANUP_INTERVAL_MS
  /\ presignRateStore = <<>>
  /\ reqs = [r \in Slots |-> IdleReq]
  /\ lastCheck = NoCheck
  /\ vcase = NoCase

\* The request on its way is the one of the upload being served.
Requested(name, type) ==
  /\ client.serving # 0
  /\ client.uploads[client.serving].file.name = name
  /\ client.uploads[client.serving].file.type = type

NextClient ==
  \/ \E u \in UploadIds, f \in ClientFiles : HandleFileUpload(u, f)
  \/ \E u \in UploadIds : GetJSON(u)
  \/ \E f \in ClientFiles, ip \in ClientIps :
       /\ client.server = "index.js"
       /\ Requested(f.name, f.type)
       /\ PresignStart("r1", PadA, f.name, f.type, TRUE, ip)
  \/ \E res \in OracleResults, uuid \in UUIDs :
       client.server = "index.js" /\ PresignAccess("r1", res, uuid)
  \/ \E o \in SignerOutcomes : client.server = "index.js" /\ PresignSigned("r1", o)
  \/ \E f \in ClientFiles, ip \in ClientIps, uuid \in UUIDs :
       /\ client.server = "part_001"
       /\ Requested(f.name, f.type)
       /\ ConfigurePresignStart("r1", PadA, f.name, f.type, TRUE, ip, uuid)
  \/ \E res \in OracleResults, uuid \in UUIDs :
       client.server = "part_001" /\ ConfigurePresignAccess("r1", res, uuid)
  \/ \E o \in SignerOutcomes : client.server = "part_001" /\ ConfigurePresignSigned("r1", o)
  \/ \E u \in UploadIds, arrives \in BOOLEAN : PresignSettles(u, arrives)
  \/ client.serving = 0 /\ Release("r1")
  \/ \E u \in UploadIds, ok \in BOOLEAN : PutSettles(u, ok)
  \/ TimerFires
  \/ DismissError

SpecClient == InitClient /\ [][NextClient]_vars

(***************************************************************************)
(* Properties                                                              *)
(***************************************************************************)

\* Handler r has asked getSignedUrl for a URL, or has answered with one.
SignerAsked(r) ==
  \/ reqs[r].pc = "getSignedUrl"
  \/ reqs[r].command # NoCommand
  \/ reqs[r].signedUrl # NoCommand
  \/ reqs[r].status \in {200, 302}

\* C1: on the upload route and on the download route, getSignedUrl is asked
\* for a URL, and a signed URL is returned or redirected to, only if
\* checkAccess was called earlier in the same request with the pad id of
\* that request and answered grant.
C1_SignerOnlyAfterGrant ==
  \A r \in DOMAIN reqs :
    SignerAsked(r) =>
      /\ reqs[r].access = "grant"
      /\ reqs[r].oraclePad # Undefined
      /\ reqs[r].oraclePad = reqs[r].padId

\* A download the oracle granted has been redirected to a signed URL.
C1_Witness ==
  \E r \in DOMAIN reqs :
    /\ reqs[r].route = "download"
    /\ reqs[r].status = 302
    /\ reqs[r].signedUrl.op = "GET"
    /\ reqs[r].access = "grant"

\* C2: when SecurityManager is not loaded, no request is answered with a
\* signed URL, getSignedUrl is never called, and every request with a valid
\* pad id is refused as "Security module unavailable"; a session cookie or
\* token changes nothing.
C2_FailClosed ==
  ~securityManager =>
    \A r \in DOMAIN reqs :
      /\ ~SignerAsked(r)
      /\ (reqs[r].pc = "done" /\ isValidPadId(reqs[r].padId)) =>
           /\ reqs[r].status = 500
           /\ reqs[r].error = "Security module unavailable"

\* Requests a and b are on the same route for the same pad, a was refused
\* by the answer of checkAccess and b by its exception.
DeniedAndThrown(a, b) ==
  /\ reqs[a].pc = "done"
  /\ reqs[b].pc = "done"
  /\ reqs[a].route = reqs[b].route
  /\ reqs[a].padId = reqs[b].padId
  /\ reqs[a].access = "deny"
  /\ reqs[b].access = "throw"

\* C3 as stated: an answer of checkAccess other than grant and an exception
\* of checkAccess give the caller the same status and the same error body.
C3_SameOutcome ==
  \A a, b \in DOMAIN reqs :
    DeniedAndThrown(a, b) =>
      /\ reqs[a].status = reqs[b].status
      /\ reqs[a].error = reqs[b].error

\* C3: an answer of checkAccess other than grant and an exception of
\* checkAccess both refuse the request (an error response, no signed URL,
\* getSignedUrl not called, the rate limiter not consulted), the first with
\* status 403 and "Access denied to this pad", the second with status 500
\* and "Access verification failed"; each writes one log line, of level warn
\* for the first and error for the second.
C3_RefusedWithDistinctStatus ==
  \A r \in DOMAIN reqs :
    (reqs[r].pc = "done" /\ reqs[r].access \in {"deny", "throw"}) =>
      /\ ~SignerAsked(r)
      /\ reqs[r].limiter = "none"
      /\ reqs[r].downloadUrl = NoUrl
      /\ Len(reqs[r].logs) = 1
      /\ IF reqs[r].access = "deny"
           THEN /\ reqs[r].status = 403
                /\ reqs[r].error = "Access denied to this pad"
                /\ reqs[r].logs[1].level = "warn"
           ELSE /\ reqs[r].status = 500
                /\ reqs[r].error = "Access verification failed"
                /\ reqs[r].logs[1].level = "error"

\* Two downloads of the same pad have been refused, one by the answer of
\* checkAccess and one by its exception.
C3_Witness ==
  \E a, b \in DOMAIN reqs :
    /\ DeniedAndThrown(a, b)
    /\ reqs[a].route = "download"
    /\ reqs[a].status = 403
    /\ reqs[b].status = 500

\* C4: a download request whose file id fails isValidFileId ends with
\* status 400, and neither checkAccess nor getSignedUrl is called for it.
C4_InvalidFileIdRejectedFirst ==
  \A r \in DOMAIN reqs :
    (reqs[r].route = "download" /\ ~isValidFileId(reqs[r].file)) =>
      /\ reqs[r].pc = "done"
      /\ reqs[r].status = 400
      /\ reqs[r].oraclePad = Undefined
      /\ reqs[r].access = "none"
      /\ ~SignerAsked(r)
      /\ reqs[r].limiter = "none"

\* A download of "../../etc/passwd" from a well-formed pad id has been
\* answered.
C4_Witness ==
  \E r \in DOMAIN reqs :
    /\ reqs[r].route = "download"
    /\ reqs[r].pc = "done"
    /\ isValidPadId(reqs[r].padId)
    /\ reqs[r].file = Chars("../../etc/passwd")
    /\ reqs[r].error = "Invalid file ID"

\* The strings the pad id check is stated to accept: 1 to 500 code units,
\* none of them "/", "\", NUL or another control character, and no two
\* dots in a row.
WellFormedPadId(v) ==
  /\ IsString(v)
  /\ Len(v) \in 1..500
  /\ \A i \in 1..Len(v) : v[i] \notin {"/", "\\"} \cup ControlChars
  /\ \A i \in 1..(Len(v) - 1) : ~(v[i] = "." /\ v[i + 1] = ".")

\* C5: isValidPadId returns false for every input that is not a string, is
\* empty, is longer than 500 characters or contains "..", "/", "\", NUL or
\* a control character, and true for every other string of 1 to 500
\* characters.
C5_PadIdCharacterised ==
  vcase.fn = "isValidPadId" => (vcase.ok <=> WellFormedPadId(vcase.arg))

\* isValidPadId has rejected a string for a backslash alone.
C5_Witness ==
  /\ vcase.fn = "isValidPadId"
  /\ ~vcase.ok
  /\ IsString(vcase.arg)
  /\ IncludesChar(vcase.arg, "\\")
  /\ \A i \in 1..Len(vcase.arg) : vcase.arg[i] \in {"a", "\\"}

\* s[from..to] is a group of hexadecimal digits.
HexGroup(s, from, to) == \A i \in from..to : IsHexChar(s[i])

\* The strings the file id check is stated to accept: at most 100 code
\* units, five groups of 8, 4, 4, 4 and 12 hexadecimal digits with hyphens
\* between them, a dot, and one or more letters and digits.
WellFormedFileId(v) ==
  /\ IsString(v)
  /\ Len(v) <= 100
  /\ Len(v) > 37
  /\ HexGroup(v, 1, 8) /\ v[9] = "-"
  /\ HexGroup(v, 10, 13) /\ v[14] = "-"
  /\ HexGroup(v, 15, 18) /\ v[19] = "-"
  /\ HexGroup(v, 20, 23) /\ v[24] = "-"
  /\ HexGroup(v, 25, 36) /\ v[37] = "."
  /\ \A i \in 38..Len(v) : IsAlnumChar(v[i])

\* C6: isValidFileId returns true exactly for the strings of at most 100
\* characters made of five hyphen-separated groups of 8, 4, 4, 4 and 12
\* hexadecimal digits, a dot and a non-empty alphanumeric extension; every
\* other value is rejected.
C6_FileIdCharacterised ==
  vcase.fn = "isValidFileId" => (vcase.ok <=> WellFormedFileId(vcase.arg))

\* isValidFileId has accepted a file id of exactly 100 characters.
C6_Witness ==
  /\ vcase.fn = "isValidFileId"
  /\ vcase.ok
  /\ Len(vcase.arg) = 100

\* C7: the file id of every successful upload (the UUID, a dot and the
\* extension of the file name that passed the checks of the handler) passes
\* isValidFileId.
C7_GeneratedIdsValid ==
  \A r \in DOMAIN reqs :
    (reqs[r].route = "s3_presign" /\ reqs[r].status = 200) =>
      isValidFileId(basename(reqs[r].signedUrl.Key))

\* C8: a download that follows the download link of a successful upload for
\* key K, with checkAccess granting, the rate limiter allowing and
\* getSignedUrl succeeding, is answered with a 302 redirect to a GET URL
\* signed for K, with attachment disposition unless the extension is among
\* the inline extensions.
C8_RoundTrip ==
  \A r \in DOMAIN reqs :
    (/\ reqs[r].route = "download"
     /\ reqs[r].fromKey # <<>>
     /\ reqs[r].pc = "done"
     /\ reqs[r].access \in {"none", "grant"}
     /\ reqs[r].limiter # "refused"
     /\ reqs[r].status \notin {404, 500}) =>
      /\ reqs[r].status = 302
      /\ reqs[r].signedUrl.op = "GET"
      /\ reqs[r].signedUrl.Key = reqs[r].fromKey
      /\ (~ShouldOpenInline(settings, getValidExtension(reqs[r].file))
            => reqs[r].signedUrl.Disposition = "attachment")

\* The timestamps on record for the caller of the last call.
RecordedBefore == StampsOf(lastCheck.before, lastCheck.ip)

\* How many of them are less than one window old at the call.
RecentBefore ==
  Cardinality({i \in 1..Len(RecordedBefore) :
                 lastCheck.at - RecordedBefore[i] < PRESIGN_RATE_WINDOW_MS})

\* C9: a call of _rateLimitCheck is allowed while fewer than 30 allowed
\* calls of the same caller lie within the window, is refused once 30 do,
\* and is allowed again once the window has elapsed since the calls on
\* record.
C9_WindowedLimit ==
  lastCheck.at >= 0 =>
    /\ RecentBefore < 30 => lastCheck.allowed
    /\ RecentBefore >= 30 => ~lastCheck.allowed
    /\ (\A i \in 1..Len(RecordedBefore) :
          lastCheck.at - RecordedBefore[i] >= PRESIGN_RATE_WINDOW_MS) => lastCheck.allowed

\* A caller with 30 calls on record is allowed again exactly one window
\* after the last of them.
C9_Witness ==
  /\ lastCheck.at >= 0
  /\ lastCheck.allowed
  /\ Len(RecordedBefore) = 30
  /\ \A i \in 1..Len(RecordedBefore) :
       lastCheck.at - RecordedBefore[i] = PRESIGN_RATE_WINDOW_MS

\* C10: a call of _rateLimitCheck that returns false leaves the store as it
\* was: no timestamp is appended, and the list of the caller and of every
\* other caller is unchanged.
C10_DenyRecordsNothing ==
  (lastCheck.at >= 0 /\ ~lastCheck.allowed) =>
    /\ lastCheck.after = lastCheck.before
    /\ \A ip \in {Caller, OtherCaller} :
         StampsOf(lastCheck.after, ip) = StampsOf(lastCheck.before, ip)

\* A call has been refused while another caller has a timestamp on record.
C10_Witness ==
  /\ lastCheck.at >= 0
  /\ ~lastCheck.allowed
  /\ lastCheck.ip = Caller
  /\ StampsOf(lastCheck.before, OtherCaller) # <<>>
  /\ StampsOf(lastCheck.after, OtherCaller) = StampsOf(lastCheck.before, OtherCaller)

\* The cleanup callback has run at the present time.
JustSwept == nextCleanup = now + RATE_CLEANUP_INTERVAL_MS

\* Key ip is in the map with no timestamp that will be within the window
\* when the cleanup timer is next due, and the timer is due within the
\* time the clock is followed through.
StaleKey(ip) ==
  /\ ip \in DOMAIN presignRateStore
  /\ nextCleanup \in SweepClockValues
  /\ \A i \in 1..Len(presignRateStore[ip]) :
       presignRateStore[ip][i] + PRESIGN_RATE_WINDOW_MS <= nextCleanup

\* Key ip is out of the map, or its caller has sent a request since.
GoneOrActive(ip) ==
  \/ ip \notin DOMAIN presignRateStore
  \/ \E i \in 1..Len(presignRateStore[ip]) :
       presignRateStore[ip][i] + PRESIGN_RATE_WINDOW_MS > nextCleanup

\* C11: with the cleanup timer firing whenever it is due, a key whose
\* caller stops sending requests is eventually removed from the map; right
\* after a run of the cleanup callback the map holds no key without a
\* timestamp inside the window, and every timestamp kept lies inside the
\* window.
C11_SweepBoundsMap ==
  /\ [](JustSwept =>
          \A ip \in DOMAIN presignRateStore :
            /\ presignRateStore[ip] # <<>>
            /\ \A i \in 1..Len(presignRateStore[ip]) :
                 now - presignRateStore[ip][i] < PRESIGN_RATE_WINDOW_MS)
  /\ \A ip \in {Caller, OtherCaller} : StaleKey(ip) ~> GoneOrActive(ip)

\* The cleanup callback has run and removed the key of a caller whose last
\* request was allowed more than a window before.
C11_Witness ==
  /\ JustSwept
  /\ lastCheck.allowed
  /\ lastCheck.at + PRESIGN_RATE_WINDOW_MS <= now
  /\ lastCheck.ip \notin DOMAIN presignRateStore

\* C12 as stated: _rateLimitCheck runs before checkAccess is called, so
\* checkAccess is called only for requests the rate limiter has allowed, and
\* a request refused with 429 has had no checkAccess call made for it.
C12_LimiterBeforeOracle ==
  \A r \in DOMAIN reqs :
    /\ reqs[r].oraclePad # Undefined => reqs[r].limiter = "allowed"
    /\ reqs[r].status = 429 =>
         /\ reqs[r].access = "none"
         /\ reqs[r].oraclePad = Undefined

\* C12: _rateLimitCheck runs after checkAccess has granted and before any
\* signing work: a request refused with 429 has had checkAccess called and
\* granting, getSignedUrl is not called for it, and a request that
\* checkAccess does not grant never reaches the rate limiter.
C12_LimiterAfterOracleBeforeSigner ==
  \A r \in DOMAIN reqs :
    /\ reqs[r].limiter # "none" =>
         /\ reqs[r].access = "grant"
         /\ reqs[r].oraclePad = reqs[r].padId
    /\ reqs[r].limiter = "refused" =>
         /\ reqs[r].pc = "done"
         /\ reqs[r].status = 429
         /\ ~SignerAsked(r)
    /\ SignerAsked(r) => reqs[r].limiter = "allowed"
    /\ reqs[r].status = 429 => reqs[r].limiter = "refused"

\* A download the oracle granted has been refused by the rate limiter.
C12_Witness ==
  \E r \in DOMAIN reqs :
    /\ reqs[r].route = "download"
    /\ reqs[r].status = 429
    /\ reqs[r].access = "grant"
    /\ reqs[r].limiter = "refused"

\* The number of the first check of the upload handler that request q
\* fails, in the order pad id (1), access gate (2), rate limiter (3),
\* storage configuration (4), name and type present (5), extension and
\* allow-list (6), MIME type against extension (7); 8 when none fails.
UploadFirstFailing(q) ==
  LET ext == getValidExtension(q.name)
  IN IF ~isValidPadId(q.padId) THEN 1
     ELSE IF ~securityManager \/ q.access # "grant" THEN 2
     ELSE IF q.limiter # "allowed" THEN 3
     ELSE IF settings.storage.type # "s3_presigned" \/ ~awsSdk
             \/ settings.storage.bucket = "" \/ settings.storage.region = "" THEN 4
     ELSE IF q.name \in {Undefined, <<>>} \/ q.type \in {Undefined, <<>>} THEN 5
     ELSE IF ext = Null \/ (settings.fileTypes # {Undefined} /\ ext \notin settings.fileTypes)
       THEN 6
     ELSE IF isValidMimeForExtension_throws(ext, q.type) \/ ~isValidMimeForExtension(ext, q.type)
       THEN 7
     ELSE 8

\* The number of the check the response of the upload handler comes from; 8
\* for the responses after signing was reached.
UploadResponseStage(q) ==
  CASE q.error = "Invalid pad ID" -> 1
    [] q.error \in {"Security module unavailable", "Access denied to this pad",
                    "Access verification failed"} -> 2
    [] q.error = "Too many presign requests" -> 3
    [] q.error \in {"s3_presigned storage not configured", "AWS SDK not available on server",
                    "Invalid S3 configuration: missing bucket or region"} -> 4
    [] q.error = "Missing name or type query parameters" -> 5
    [] q.error \in {"Invalid filename: missing extension", "File type not allowed"} -> 6
    [] q.error = "MIME type does not match file extension" -> 7
    [] q.error = "Failed to generate presigned URL" /\ q.command = NoCommand -> 7
    [] OTHER -> 8

\* C13: the upload handler applies its checks in the order pad id, access
\* gate, rate limiter, storage configuration, name and type, extension and
\* allow-list, MIME type, then key and signing; the response is that of the
\* first check that fails, one response is sent, and no later step
\* (checkAccess, rate limiter, getSignedUrl) is taken for the request.
C13_UploadOrder ==
  \A r \in DOMAIN reqs :
    reqs[r].route = "s3_presign" =>
      /\ reqs[r].pc = "done" <=> reqs[r].status # 0
      /\ reqs[r].pc = "done" =>
           LET stage == UploadResponseStage(reqs[r])
           IN /\ stage = UploadFirstFailing(reqs[r])
              /\ stage = 1 => reqs[r].status = 400
              /\ stage = 3 => reqs[r].status = 429
              /\ stage \in 5..6 => reqs[r].status = 400
              /\ stage = 8 <=> reqs[r].command # NoCommand
              /\ (stage < 8 \/ reqs[r].status # 200) => reqs[r].signedUrl = NoCommand
              /\ (stage = 1 \/ ~securityManager) =>
                   reqs[r].oraclePad = Undefined /\ reqs[r].access = "none"
              /\ stage <= 2 => reqs[r].limiter = "none"

\* An upload with no storage configured and no file name has been answered
\* for the storage configuration.
C13_Witness ==
  \E r \in DOMAIN reqs :
    /\ reqs[r].route = "s3_presign"
    /\ reqs[r].pc = "done"
    /\ reqs[r].name = Undefined
    /\ settings = SettingsNoStorage
    /\ reqs[r].error = "s3_presigned storage not configured"
    /\ reqs[r].limiter = "allowed"

\* The number of the first check of the download handler that request q
\* fails, in the order pad id (1), file id (2), access gate (3), rate
\* limiter (4), storage configuration (5); 6 when none fails.
DownloadFirstFailing(q) ==
  IF ~isValidPadId(q.padId) THEN 1
  ELSE IF ~isValidFileId(q.file) THEN 2
  ELSE IF ~securityManager \/ q.access # "grant" THEN 3
  ELSE IF q.limiter # "allowed" THEN 4
  ELSE IF settings.storage.type # "s3_presigned" \/ ~awsSdk
          \/ settings.storage.bucket = "" \/ settings.storage.region = "" THEN 5
  ELSE 6

\* The number of the check the response of the download handler comes
\* from; 6 for the responses after signing was reached.
DownloadResponseStage(q) ==
  CASE q.error = "Invalid pad ID" -> 1
    [] q.error = "Invalid file ID" -> 2
    [] q.error \in {"Security module unavailable", "Access denied to this pad",
                    "Access verification failed"} -> 3
    [] q.error = "Too many download requests" -> 4
    [] q.error \in {"s3_presigned storage not configured", "AWS SDK not available on server",
                    "Invalid S3 configuration: missing bucket or region"} -> 5
    [] OTHER -> 6

\* C14: the download handler applies its checks in the order pad id, file
\* id, access gate, rate limiter, then key, disposition and signing; the
\* response is that of the first check that fails (400 before 403 before
\* 429), one response is sent, and no later step (checkAccess, rate
\* limiter, getSignedUrl) is taken for the request.
C14_DownloadOrder ==
  \A r \in DOMAIN reqs :
    reqs[r].route = "download" =>
      /\ reqs[r].pc = "done" <=> reqs[r].status # 0
      /\ reqs[r].pc = "done" =>
           LET stage == DownloadResponseStage(reqs[r])
           IN /\ stage = DownloadFirstFailing(reqs[r])
              /\ stage \in 1..2 => reqs[r].status = 400
              /\ (stage = 3 /\ reqs[r].access = "deny") => reqs[r].status = 403
              /\ stage = 4 => reqs[r].status = 429
              /\ stage = 6 <=> reqs[r].command # NoCommand
              /\ (stage < 6 \/ reqs[r].status # 302) => reqs[r].signedUrl = NoCommand
              /\ (stage \in 1..2 \/ ~securityManager) =>
                   reqs[r].oraclePad = Undefined /\ reqs[r].access = "none"
              /\ stage <= 3 => reqs[r].limiter = "none"

\* A download with a malformed pad id and a malformed file id has been
\* answered for the pad id.
C14_Witness ==
  \E r \in DOMAIN reqs :
    /\ reqs[r].route = "download"
    /\ reqs[r].pc = "done"
    /\ ~isValidPadId(reqs[r].padId)
    /\ ~isValidFileId(reqs[r].file)
    /\ reqs[r].status = 400
    /\ reqs[r].error = "Invalid pad ID"

\* The MIME types the table lists for an extension, written out for the
\* extensions among the inputs; the empty set for one the table lacks.
ListedMimes(ext) ==
  CASE ext = Chars("txt") -> {Chars("text/plain")}
    [] ext = Chars("pdf") -> {Chars("application/pdf")}
    [] ext = Chars("csv") -> {Chars("text/csv"), Chars("text/plain"), Chars("application/csv")}
    [] ext = Chars("mp3") -> {Chars("audio/mpeg"), Chars("audio/mp3")}
    [] ext = Chars("7z") -> {Chars("application/x-7z-compressed")}
    [] OTHER -> {}

\* The declared types that normalise to text/plain, application/pdf,
\* audio/mp3 or application/x-7z-compressed, with what they normalise to.
NormalisedType(t) ==
  CASE t \in {Chars("text/plain"), Chars("TEXT/PLAIN; charset=utf-8"), Chars(" Text/Plain ;x"),
              Chars("text/plain;")} -> Chars("text/plain")
    [] t = Chars(";text/plain") -> <<>>
    [] OTHER -> t

\* C15: for a non-empty extension and a non-empty declared type,
\* isValidMimeForExtension returns true exactly when the extension is not in
\* EXTENSION_MIME_MAP, or the declared type, lowercased and without its
\* parameters and surrounding spaces, is listed for the extension.
C15_MimeCharacterised ==
  (/\ vcase.fn = "isValidMimeForExtension"
   /\ IsString(vcase.arg) /\ vcase.arg # <<>>
   /\ IsString(vcase.type) /\ vcase.type # <<>>) =>
    /\ ~vcase.threw
    /\ vcase.ok <=>
         \/ ListedMimes(toLowerCase(vcase.arg)) = {}
         \/ NormalisedType(vcase.type) \in ListedMimes(toLowerCase(vcase.arg))

\* C16: the validators never throw, so no upload request ends in the
\* response of the catch block ("Failed to generate presigned URL") before
\* getSignedUrl has been called.
C16_ValidatorsTotal ==
  \A r \in DOMAIN reqs :
    (/\ reqs[r].route = "s3_presign"
     /\ reqs[r].pc = "done"
     /\ reqs[r].error = "Failed to generate presigned URL") =>
      reqs[r].command # NoCommand

\* What follows the last c in s; s itself when it holds no c.
AfterLast(s, c) ==
  IF ~IncludesChar(s, c) THEN s
  ELSE LET last == CHOOSE i \in 1..Len(s) : s[i] = c /\ \A j \in (i + 1)..Len(s) : s[j] # c
       IN SubSeq(s, last + 1, Len(s))

\* s without the slashes at its end.
RECURSIVE DropTrailingSlashes(_)
DropTrailingSlashes(s) ==
  IF s # <<>> /\ s[Len(s)] = "/" THEN DropTrailingSlashes(SubSeq(s, 1, Len(s) - 1)) ELSE s

\* The extension as stated: what follows the last dot of the whole name.
ExtensionAfterLastDot(v) ==
  IF ~IsString(v) \/ v = <<>> THEN Null
  ELSE IF ~IncludesChar(v, ".") \/ v[Len(v)] = "." THEN Null
  ELSE toLowerCase(AfterLast(v, "."))

\* The extension of the last path segment of the name: what follows its
\* last dot, unless the segment has no dot, ends in its last dot, or has
\* its last dot as its first character.
ExtensionOfLastSegment(v) ==
  IF ~IsString(v) \/ v = <<>> THEN Null
  ELSE LET seg == AfterLast(DropTrailingSlashes(v), "/")
           rest == AfterLast(seg, ".")
       IN IF ~IncludesChar(seg, ".") \/ rest = <<>> \/ Len(rest) = Len(seg) - 1 THEN Null
          ELSE toLowerCase(rest)

\* C17 as stated: getValidExtension returns the lowercased substring after
\* the last dot of the file name, and null exactly when the name has no dot,
\* ends in a dot, is empty or is not a string, for every file name.
C17_AfterLastDot ==
  vcase.fn = "getValidExtension" => vcase.ext = ExtensionAfterLastDot(vcase.arg)

\* C17: getValidExtension returns the lowercased substring after the last
\* dot of the last path segment of the file name (slashes at the end
\* ignored), and null when that segment has no dot, ends in a dot or has its
\* only or last dot as its first character, or when the name is empty or not
\* a string.
C17_ExtensionOfLastSegment ==
  vcase.fn = "getValidExtension" =>
    /\ vcase.ext = ExtensionOfLastSegment(vcase.arg)
    /\ vcase.ok <=> vcase.ext # Null

\* getValidExtension has returned null for a name whose only dot is its
\* first character.
C17_Witness ==
  /\ vcase.fn = "getValidExtension"
  /\ vcase.arg = <<".", "a", "a">>
  /\ vcase.ext = Null

\* C18: with a fileTypes allow-list configured, an upload whose extension
\* is not in the list is never signed and, once the earlier checks have
\* passed, is answered 400 "File type not allowed", so the key of every
\* signed upload carries a listed extension; with no allow-list, no upload
\* is refused for its file type.
C18_AllowList ==
  \A r \in DOMAIN reqs :
    (reqs[r].route = "s3_presign" /\ reqs[r].pc # "idle") =>
      LET ext == getValidExtension(reqs[r].name)
      IN /\ (settings.fileTypes # {Undefined} /\ ext \notin settings.fileTypes) =>
              /\ ~SignerAsked(r)
              /\ (reqs[r].pc = "done" /\ UploadFirstFailing(reqs[r]) = 6) =>
                   /\ reqs[r].status = 400
                   /\ ext # Null => reqs[r].error = "File type not allowed"
         /\ (settings.fileTypes # {Undefined} /\ reqs[r].command # NoCommand) =>
              AfterLast(reqs[r].command.Key, ".") \in settings.fileTypes
         /\ settings.fileTypes = {Undefined} => reqs[r].error # "File type not allowed"

\* With an allow-list of pdf and mp3, an upload of a txt file that passed
\* the gate and the rate limiter has been refused for its file type.
C18_Witness ==
  \E r \in DOMAIN reqs :
    /\ reqs[r].route = "s3_presign"
    /\ reqs[r].pc = "done"
    /\ settings.fileTypes # {Undefined}
    /\ getValidExtension(reqs[r].name) = Chars("txt")
    /\ reqs[r].limiter = "allowed"
    /\ reqs[r].status = 400
    /\ reqs[r].error = "File type not allowed"

\* The extension of the file id of request q, lowercased, is among the
\* configured inline extensions, lowercased.
InInlineSet(q) ==
  /\ settings.inlineExtensions # {Undefined}
  /\ \E e \in settings.inlineExtensions :
       toLowerCase(e) = toLowerCase(AfterLast(q.file, "."))

Misconfigured(r) ==
  /\ reqs[r].pc = "done"
  /\ reqs[r].access = "grant"
  /\ reqs[r].limiter = "allowed"
  /\ \/ settings.storage.type # "s3_presigned"
     \/ settings.storage.bucket = ""
     \/ settings.storage.region = ""
     \/ ~awsSdk

\* C20 as stated: a request that has passed the access gate and the rate
\* limiter ends with status 500 whenever the storage configuration is
\* absent or incomplete or the signer is not loaded, never with a 4xx.
C20_MisconfiguredIs500 ==
  \A r \in DOMAIN reqs : Misconfigured(r) => reqs[r].status = 500

\* C20: a request that has passed the access gate and the rate limiter is
\* not signed when the storage configuration is absent or incomplete or the
\* AWS SDK is not loaded; it ends with 400 "s3_presigned storage not
\* configured" when the storage section is absent or of another type, and
\* with 500 when the SDK is not loaded or the bucket or region is missing.
C20_MisconfiguredStatus ==
  \A r \in DOMAIN reqs :
    Misconfigured(r) =>
      /\ ~SignerAsked(r)
      /\ IF settings.storage.type # "s3_presigned"
           THEN /\ reqs[r].status = 400
                /\ reqs[r].error = "s3_presigned storage not configured"
           ELSE /\ reqs[r].status = 500
                /\ reqs[r].error = IF ~awsSdk THEN "AWS SDK not available on server"
                                   ELSE "Invalid S3 configuration: missing bucket or region"

\* A granted download has ended with 500 for a storage section without a
\* bucket.
C20_Witness ==
  \E r \in DOMAIN reqs :
    /\ Misconfigured(r)
    /\ reqs[r].route = "download"
    /\ settings = SettingsNoBucket
    /\ reqs[r].status = 500

\* Request r has reached the access gate: its pad id, and on the download
\* route its file id, passed validation.
ReachedGate(r) ==
  /\ reqs[r].pc = "done"
  /\ isValidPadId(reqs[r].padId)
  /\ reqs[r].route = "download" => isValidFileId(reqs[r].file)

\* C21: every request that reaches the access gate has, when it ends, a log
\* line with the caller IP and the pad id, and with the author when
\* checkAccess granted.
C21_EveryTerminalStateLogged ==
  \A r \in DOMAIN reqs :
    ReachedGate(r) =>
      \E i \in 1..Len(reqs[r].logs) :
        /\ reqs[r].logs[i].ip = reqs[r].clientIp
        /\ reqs[r].logs[i].pad = reqs[r].padId
        /\ reqs[r].access = "grant" => reqs[r].logs[i].author = reqs[r].authorId

\* C22: every successful upload response carries a download link that is a
\* relative locator of the download route made of the pad id and the
\* generated file id, and no URL of the bucket.
C22_NoDirectStorageUrl ==
  \A r \in DOMAIN reqs :
    (reqs[r].route = "s3_presign" /\ reqs[r].status = 200) =>
      /\ reqs[r].publicUrl = <<>>
      /\ reqs[r].downloadUrl # NoUrl
      /\ decodeURIComponent(reqs[r].downloadUrl.padId) = reqs[r].padId
      /\ decodeURIComponent(reqs[r].downloadUrl.file) = AfterLast(reqs[r].signedUrl.Key, "/")

\* [A-Za-z0-9._-]
InAllowList(c) == IsAlnumChar(c) \/ c \in {".", "_", "-"}

\* a[i..] is a subsequence of b[j..].
RECURSIVE SubsequenceFrom(_, _, _, _)
SubsequenceFrom(a, b, i, j) ==
  IF i > Len(a) THEN TRUE
  ELSE IF j > Len(b) THEN FALSE
  ELSE IF a[i] = b[j] THEN SubsequenceFrom(a, b, i + 1, j + 1)
  ELSE SubsequenceFrom(a, b, i, j + 1)

\* C23 as stated: the header filename holds only allow-listed characters,
\* and every allow-listed character of the original filename is kept, in
\* order.
C23_AllowedCharsOfNameKept ==
  vcase.fn = "safeFilename" =>
    /\ \A i \in 1..Len(vcase.ext) : InAllowList(vcase.ext[i])
    /\ SubsequenceFrom(SelectSeq(vcase.arg, InAllowList), vcase.ext, 1, 1)

\* C23: the header filename is the last path segment of the original
\* filename with every character outside [A-Za-z0-9._-] replaced by an
\* underscore and every character inside it kept in place; the segments
\* before the last slash are dropped.
C23_SafeFilename ==
  vcase.fn = "safeFilename" =>
    LET seg == AfterLast(DropTrailingSlashes(vcase.arg), "/")
    IN /\ Len(vcase.ext) = Len(seg)
       /\ \A i \in 1..Len(seg) :
            vcase.ext[i] = IF InAllowList(seg[i]) THEN seg[i] ELSE "_"
       /\ \A i \in 1..Len(vcase.ext) : InAllowList(vcase.ext[i])

C23_Witness ==
  /\ vcase.fn = "safeFilename"
  /\ vcase.arg = Chars("dir/report.pdf")
  /\ vcase.ext = Chars("report.pdf")

\* Upload u has failed: its file was rejected, its presign request was not
\* answered with success, or its PUT failed.
UploadFailed(u) ==
  \/ client.uploads[u].outcome = "rejected"
  \/ client.uploads[u].presignStatus # 200
  \/ client.uploads[u].put = "failed"

LinksOf(u) == SelectSeq(client.links, LAMBDA l : l.by = u)

\* C24: an upload that has ended without a failed validation, presign
\* request or PUT has put exactly one hyperlink into the document, its URL
\* the download link of the presign answer; one that has ended with such a
\* failure has put none and has shown the error.
C24_LinkIffUploaded ==
  \A u \in DOMAIN client.uploads :
    client.uploads[u].pc = "done" =>
      IF UploadFailed(u)
        THEN LinksOf(u) = <<>> /\ client.uploads[u].outcome \in {"rejected", "error"}
        ELSE /\ Len(LinksOf(u)) = 1
             /\ client.uploads[u].downloadUrl # NoUrl
             /\ LinksOf(u)[1].url = client.uploads[u].downloadUrl

ErrorVisible(c) == c.modal.visible /\ c.modal.shown = "error"

\* C25: a visible error modal stays visible over every step that is not
\* the user's: not their dismissal, not their picking of another file.
C25_ErrorStaysUntilDismissed ==
  [][ErrorVisible(client) =>
       \/ ErrorVisible(client')
       \/ DismissError
       \/ \E u \in UploadIds, f \in ClientFiles : HandleFileUpload(u, f)]_vars

\* The number of slashes of s.
Slashes(s) == Cardinality({i \in 1..Len(s) : s[i] = "/"})

\* The id of a generated object: a fresh UUID, a dot and an extension.
GeneratedObjectId(o) ==
  \E uuid \in UUIDs :
    /\ Len(o) > Len(uuid) + 1
    /\ SubSeq(o, 1, Len(uuid) + 1) = uuid \o <<".">>

\* C26: every key handed to the signer is the configured prefix, the
\* validated pad id of the request, one slash and an object id that is
\* freshly generated (upload) or the validated file id (download); what
\* follows the prefix has exactly one slash and no "..".
C26_KeyNamespace ==
  \A r \in DOMAIN reqs :
    reqs[r].command # NoCommand =>
      LET key == reqs[r].command.Key
          pre == PrefixOf(settings.storage)
          rest == SubSeq(key, Len(pre) + 1, Len(key))
          objectId == AfterLast(rest, "/")
      IN /\ SubSeq(key, 1, Len(pre)) = pre
         /\ rest = reqs[r].padId \o <<"/">> \o objectId
         /\ isValidPadId(reqs[r].padId)
         /\ reqs[r].route = "download" => objectId = reqs[r].file /\ isValidFileId(objectId)
         /\ reqs[r].route = "s3_presign" => GeneratedObjectId(objectId)
         /\ Slashes(rest) = 1
         /\ ~Includes(rest, <<".", ".">>)

C26_Witness ==
  /\ reqs["r1"].route = "download"
  /\ reqs["r1"].padId = PadA
  /\ reqs["r1"].command.op = "GET"
  /\ reqs["r1"].command.Key = Chars("uploads/padA/") \o FileA

\* The number of stamps of the list in the window that ends at e.
InWindow(stamps, e) ==
  Cardinality({i \in 1..Len(stamps) :
                 stamps[i] > e - PRESIGN_RATE_WINDOW_MS /\ stamps[i] <= e})

\* The number of requests of ip the limiter has allowed in the window that
\* ends at e: the earlier ones and those of the two slots.
AllowedInWindow(ip, e) ==
  (IF ip = Caller THEN InWindow(EarlierStamps, e) ELSE 0)
    + Cardinality({r \in DOMAIN reqs :
                     /\ reqs[r].limiter = "allowed"
                     /\ reqs[r].clientIp = ip
                     /\ reqs[r].limitedAt > e - PRESIGN_RATE_WINDOW_MS
                     /\ reqs[r].limitedAt <= e})

\* In no window has the limiter allowed more than the maximum for one key.
WithinBudget ==
  \A ip \in {Caller, OtherCaller}, e \in RateClockValues :
    AllowedInWindow(ip, e) <= PRESIGN_RATE_MAX

\* The step in which a handler gets the verdict of the limiter is the step
\* that records the request: allowed exactly when fewer than the maximum
\* are in the window, then one stamp more, else the map untouched.
CheckAndRecordAtomic ==
  \A r \in DOMAIN reqs :
    (reqs[r].limiter = "none" /\ reqs'[r].limiter # "none") =>
      LET ip == reqs'[r].clientIp
          before == InWindow(StampsOf(presignRateStore, ip), now)
      IN /\ reqs'[r].limiter = "allowed" <=> before < PRESIGN_RATE_MAX
         /\ reqs'[r].limiter = "allowed" =>
              /\ InWindow(StampsOf(presignRateStore', ip), now) = before + 1
              /\ StampsOf(presignRateStore', ip)[Len(StampsOf(presignRateStore', ip))] = now
         /\ reqs'[r].limiter = "refused" => presignRateStore' = presignRateStore
         /\ \A k \in DOMAIN presignRateStore \ {ip} :
              StampsOf(presignRateStore', k) = presignRateStore[k]

\* No step takes away a stamp that is in the window after the step.
NoStampLost ==
  \A ip \in DOMAIN presignRateStore :
    \A i \in 1..Len(presignRateStore[ip]) :
      LET t == presignRateStore[ip][i]
          Times(stamps) == Cardinality({j \in 1..Len(stamps) : stamps[j] = t})
      IN t > now' - PRESIGN_RATE_WINDOW_MS =>
           Times(StampsOf(presignRateStore', ip)) >= Times(presignRateStore[ip])

\* C27: under every interleaving of two requests in flight, the clock and
\* the cleanup timer, the limiter's verdict and its stamp are one step, no
\* stamp still in the window is lost, and no key is allowed more than the
\* maximum in one window.
C27_LimiterSafeUnderInterleaving ==
  /\ []WithinBudget
  /\ [][CheckAndRecordAtomic /\ NoStampLost]_vars

\* An upload suspended at the signer holds the last slot of the budget
\* while a download of the same caller is refused.
C27_Witness ==
  /\ reqs["r1"].route = "s3_presign"
  /\ reqs["r1"].pc = "getSignedUrl"
  /\ reqs["r1"].limiter = "allowed"
  /\ reqs["r1"].clientIp = Caller
  /\ reqs["r2"].route = "download"
  /\ reqs["r2"].clientIp = Caller
  /\ reqs["r2"].status = 429
  /\ reqs["r2"].limitedAt = reqs["r1"].limitedAt

\* C28: every key of the map has a list that is not empty, holds at most
\* the maximum of stamps, is in non-decreasing order and holds no stamp
\* later than the current time.
C28_MapInvariant ==
  \A ip \in DOMAIN presignRateStore :
    LET stamps == presignRateStore[ip]
    IN /\ Len(stamps) >= 1
       /\ Len(stamps) <= PRESIGN_RATE_MAX
       /\ \A i \in 1..(Len(stamps) - 1) : stamps[i] <= stamps[i + 1]
       /\ \A i \in 1..Len(stamps) : stamps[i] <= now

\* A full list with stamps of two times, after the cleanup timer has run.
C28_Witness ==
  /\ Len(StampsOf(presignRateStore, Caller)) = PRESIGN_RATE_MAX
  /\ presignRateStore[Caller][1] < presignRateStore[Caller][PRESIGN_RATE_MAX]
  /\ presignRateStore[Caller][PRESIGN_RATE_MAX] < now
  /\ nextCleanup > RATE_CLEANUP_INTERVAL_MS

\* C29: every call of the limiter returns what it would have returned had
\* the cleanup timer never run, and so would a call at the current or any
\* later time.
C29_SweepTransparent ==
  /\ lastCheck # NoCheck => lastCheck.allowed = lastCheck.unsweptAllowed
  /\ \A ip \in {Caller, OtherCaller}, t \in RateClockValues :
       t >= now =>
         RateLimitAllows(presignRateStore, ip, t) = RateLimitAllows(unswept, ip, t)

\* A call is refused after the cleanup timer has removed entries that a
\* map never cleaned up would still hold.
C29_Witness ==
  /\ lastCheck.ip = Caller
  /\ ~lastCheck.allowed
  /\ lastCheck.before # unswept
  /\ DOMAIN lastCheck.before # DOMAIN unswept
  /\ nextCleanup > RATE_CLEANUP_INTERVAL_MS

\* The limiter gives its verdict on request r in this step.
Limited(r) == reqs[r].limiter = "none" /\ reqs'[r].limiter # "none"

\* C30: the limiter counts a request of either route only after checkAccess
\* has granted it, against the one list of its caller IP; a request that
\* comes to the limiter when the list holds the maximum of stamps in the
\* window is answered 429 on either route and is not counted, any other is
\* counted once.
C30_SharedBudget ==
  [][/\ \A r \in DOMAIN reqs :
          Limited(r) =>
            LET ip == reqs[r].clientIp
                counted == InWindow(StampsOf(presignRateStore, ip), now)
            IN /\ reqs[r].route \in {"s3_presign", "download"}
               /\ reqs'[r].access = "grant"
               /\ counted >= PRESIGN_RATE_MAX =>
                    /\ reqs'[r].status = 429
                    /\ presignRateStore' = presignRateStore
               /\ counted < PRESIGN_RATE_MAX =>
                    /\ reqs'[r].status # 429
                    /\ InWindow(StampsOf(presignRateStore', ip), now) = counted + 1
     /\ (\A r \in DOMAIN reqs : ~Limited(r)) =>
          \A ip \in DOMAIN presignRateStore :
            InWindow(StampsOf(presignRateStore', ip), now')
              <= InWindow(presignRateStore[ip], now)]_vars

\* The download that follows an upload the limiter has counted is refused:
\* the upload was the last of the budget.
C30_Witness ==
  /\ reqs["r1"].route = "download"
  /\ reqs["r1"].fromKey # <<>>
  /\ reqs["r1"].status = 429
  /\ InWindow(StampsOf(presignRateStore, reqs["r1"].clientIp), now) = PRESIGN_RATE_MAX

====
